---- MODULE Spec2Model ----
(***************************************************************************)
(* A model of pkg/chunked/filesystem_linux.go: the root-confined opener,   *)
(* the directory ensurer, the file materializer, the metadata applier and  *)
(* the chunked blob reader.                                                *)
(*                                                                         *)
(* Representation.  A Go path string is a sequence of its components       *)
(* split at "/" ("a/b" is <<"a","b">>, "a/" is <<"a","">>, "" is <<>>, "." *)
(* is <<".">>).  A real location is the sequence of names from "/".  An    *)
(* open descriptor is the record of the location and the inode it refers   *)
(* to.  A call of a Go function is an operator from a world record         *)
(* w = [fs, skip, trace] (the filesystem, the skipOpenat2 flag, the system *)
(* calls issued so far) to a result record [w, err, h].                    *)
(***************************************************************************)
EXTENDS Integers, Sequences, FiniteSets, TLC

VARIABLES
  fs,           \* the filesystem: nodes by real location, inodes by number,
                \* and whether /proc is mounted
  skipOpenat2,  \* the process-wide flag
  haveOpenat2,  \* whether the kernel implements openat2
  last,         \* the last call of the session and what it returned
  trace,        \* the system calls and inner calls the last call made, in order
  chunks,       \* GetBlobAt: the chunk list of the call
  producer,     \* GetBlobAt: the goroutine, [pc, i]
  streams,      \* GetBlobAt: the data channel, [closed, offer]
  errs,         \* GetBlobAt: the error channel, [closed, sent]
  consumer,     \* GetBlobAt: the receiver, [state, got]
  hfile,        \* appendHole: the open file, [size, pos, written, writable]
  hole,         \* appendHole: the last call, [S, P, N, err]
  metadata,     \* the fileMetadata of the entry being materialized
  workers       \* concurrent extraction workers, each a stack of frames

fsVars == <<fs, skipOpenat2, haveOpenat2, last, trace>>

blobVars == <<chunks, producer, streams, errs, consumer>>

holeVars == <<hfile, hole>>

vars == <<fsVars, blobVars, holeVars, metadata, workers>>

\* What the calls on the filesystem, the blob reader and appendHole leave
\* alone.
notFS == <<blobVars, holeVars, workers>>

notBlob == <<fsVars, holeVars, metadata, workers>>

notHole == <<fsVars, blobVars, metadata, workers>>

\* ------------------------------------------------------------------ bounds

\* Symbolic links followed in one resolution before ELOOP is reported.
MaxFollow == 3

\* ----------------------------------------------------------- path strings

Parent(p) == IF p = <<>> THEN <<>> ELSE SubSeq(p, 1, Len(p) - 1)

Last(p) == p[Len(p)]

RECURSIVE CleanAcc(_, _)
CleanAcc(acc, rest) ==
  IF rest = <<>> THEN acc
  ELSE LET c == Head(rest) IN
       IF c \in {".", ""} THEN CleanAcc(acc, Tail(rest))
       ELSE IF c = ".."
            THEN IF acc # <<>> /\ Last(acc) # ".."
                 THEN CleanAcc(Parent(acc), Tail(rest))
                 ELSE CleanAcc(Append(acc, ".."), Tail(rest))
            ELSE CleanAcc(Append(acc, c), Tail(rest))

\* filepath.Clean of a relative path: "." for the empty result.
Clean(p) == LET c == CleanAcc(<<>>, p) IN IF c = <<>> THEN <<".">> ELSE c

RECURSIVE CleanRootedAcc(_, _)
CleanRootedAcc(acc, rest) ==
  IF rest = <<>> THEN acc
  ELSE LET c == Head(rest) IN
       IF c \in {".", ""} THEN CleanRootedAcc(acc, Tail(rest))
       ELSE IF c = ".." THEN CleanRootedAcc(Parent(acc), Tail(rest))
       ELSE CleanRootedAcc(Append(acc, c), Tail(rest))

\* filepath.Clean("/" + p), without the leading separator: ".." stops at "/".
CleanRooted(p) == CleanRootedAcc(<<>>, p)

\* filepath.Split: the directory part, which keeps its trailing separator
\* ("a/b" gives "a/"), and the last component ("" for "" and for "a/").
SplitDir(name) == IF Len(name) <= 1 THEN <<>> ELSE Append(Parent(name), "")

SplitBase(name) == IF name = <<>> THEN <<>> ELSE <<Last(name)>>

\* filepath.Dir: Clean of the directory part of Split; never the empty
\* string ("a" gives ".", "a/" gives "a").
Dir(name) == Clean(SplitDir(name))

\* filepath.Base: the last component after the trailing separators are
\* dropped ("a/" gives "a"), "." for the empty name.
RECURSIVE Base(_)
Base(name) ==
  IF name = <<>> THEN <<".">>
  ELSE IF Last(name) = "" THEN Base(Parent(name))
  ELSE <<Last(name)>>

\* The characters of each name the model uses, for strings.HasPrefix.
Spelling(n) ==
  CASE n = "r"      -> <<"r">>
    [] n = "r2"     -> <<"r", "2">>
    [] n = "a"      -> <<"a">>
    [] n = "b"      -> <<"b">>
    [] n = "c"      -> <<"c">>
    [] n = "etc"    -> <<"e", "t", "c">>
    [] n = "passwd" -> <<"p", "a", "s", "s", "w", "d">>
    [] OTHER        -> <<n>>

\* The string of a real location: "/" then the names joined by "/".
RECURSIVE Render(_)
Render(loc) ==
  IF loc = <<>> THEN <<"/">>
  ELSE IF Len(loc) = 1 THEN <<"/">> \o Spelling(loc[1])
  ELSE Render(Parent(loc)) \o <<"/">> \o Spelling(Last(loc))

\* strings.HasPrefix on rendered strings.
HasPrefix(s, prefix) ==
  Len(prefix) <= Len(s) /\ SubSeq(s, 1, Len(prefix)) = prefix

\* ------------------------------------------------------------- filesystem

DirNode(i) == [kind |-> "dir", ino |-> i, abs |-> FALSE, target |-> <<>>]

FileNode(i) == [kind |-> "file", ino |-> i, abs |-> FALSE, target |-> <<>>]

LinkNode(i, isAbs, tgt) == [kind |-> "symlink", ino |-> i, abs |-> isAbs, target |-> tgt]

\* The real path of the checkout root the session's dirfd is open on.
RootLoc == <<"r">>

NoHandle == [loc |-> <<"?">>, ino |-> 0]

Fd(fsys, loc) == [loc |-> loc, ino |-> fsys.nodes[loc].ino]

Exists(fsys, loc) == loc \in DOMAIN fsys.nodes

IsDir(fsys, loc) == Exists(fsys, loc) /\ fsys.nodes[loc].kind = "dir"

IsLink(fsys, loc) == Exists(fsys, loc) /\ fsys.nodes[loc].kind = "symlink"

\* The attributes of a freshly created inode: the creating process's owner,
\* no extended attribute, no content.
NewInode(mode) == [uid |-> 0, gid |-> 0, mode |-> mode, size |-> 0, xattrs |-> {}, mtime |-> 0]

\* fsys with a new node of the given kind at loc, on a fresh inode.
AddNode(fsys, loc, node, mode) ==
  [nodes  |-> [l \in DOMAIN fsys.nodes \cup {loc} |->
                 IF l = loc THEN node ELSE fsys.nodes[l]],
   inodes |-> [j \in DOMAIN fsys.inodes \cup {node.ino} |->
                 IF j = node.ino /\ j \notin DOMAIN fsys.inodes
                 THEN NewInode(mode) ELSE fsys.inodes[j]],
   proc   |-> fsys.proc]

NewIno(fsys) == CHOOSE i \in 1..(Cardinality(DOMAIN fsys.inodes) + 1) : i \notin DOMAIN fsys.inodes

\* The kernel's path walk from directory cur over the components rest, with
\* root the directory ".." and absolute symbolic links are confined to ("/"
\* itself for an ordinary open, the dirfd for RESOLVE_IN_ROOT).  leaf tells
\* an ENOENT of the last component in an existing directory.
RECURSIVE Walk(_, _, _, _, _, _)
Walk(fsys, root, cur, rest, follow, budget) ==
  IF rest = <<>> THEN [err |-> "ok", loc |-> cur, leaf |-> FALSE]
  ELSE IF ~Exists(fsys, cur) THEN [err |-> "ENOENT", loc |-> cur, leaf |-> FALSE]
  ELSE IF ~IsDir(fsys, cur) THEN [err |-> "ENOTDIR", loc |-> cur, leaf |-> FALSE]
  ELSE LET c == Head(rest)
           more == Tail(rest)
           next == Append(cur, c)
       IN IF c \in {".", ""} THEN Walk(fsys, root, cur, more, follow, budget)
          ELSE IF c = ".."
               THEN Walk(fsys, root, IF cur = root THEN root ELSE Parent(cur),
                         more, follow, budget)
          ELSE IF ~Exists(fsys, next)
               THEN [err |-> "ENOENT", loc |-> next, leaf |-> more = <<>>]
          ELSE IF IsLink(fsys, next) /\ (more # <<>> \/ follow)
               THEN IF budget = 0
                    THEN [err |-> "ELOOP", loc |-> next, leaf |-> FALSE]
                    ELSE Walk(fsys, root,
                              IF fsys.nodes[next].abs THEN root ELSE cur,
                              fsys.nodes[next].target \o more, follow, budget - 1)
          ELSE Walk(fsys, root, next, more, follow, budget)

\* open(2)/openat(2)/openat2(2) after the walk: creation, O_EXCL, O_NOFOLLOW,
\* O_PATH, O_DIRECTORY and the write-on-directory check.
KOpen(fsys, root, start, comps, flags, mode) ==
  LET excl   == {"O_CREAT", "O_EXCL"} \subseteq flags
      follow == "O_NOFOLLOW" \notin flags /\ ~excl
      r      == Walk(fsys, root, start, comps, follow, MaxFollow)
      fail(e) == [err |-> e, h |-> NoHandle, fs |-> fsys]
  IN  IF r.err = "ENOENT"
      THEN IF r.leaf /\ "O_CREAT" \in flags /\ "O_PATH" \notin flags
           THEN LET i == NewIno(fsys)
                IN [err |-> "ok", h |-> [loc |-> r.loc, ino |-> i],
                    fs |-> AddNode(fsys, r.loc, FileNode(i), mode)]
           ELSE fail("ENOENT")
      ELSE IF r.err # "ok" THEN fail(r.err)
      ELSE LET n == fsys.nodes[r.loc] IN
           IF excl /\ "O_PATH" \notin flags THEN fail("EEXIST")
           ELSE IF n.kind = "symlink" /\ "O_PATH" \notin flags THEN fail("ELOOP")
           ELSE IF "O_DIRECTORY" \in flags /\ n.kind # "dir" THEN fail("ENOTDIR")
           ELSE IF n.kind = "dir" /\ "O_PATH" \notin flags
                   /\ flags \cap {"O_WRONLY", "O_CREAT"} # {}
                THEN fail("EISDIR")
           ELSE [err |-> "ok", h |-> [loc |-> r.loc, ino |-> n.ino],
                 fs |-> IF "O_TRUNC" \in flags /\ "O_PATH" \notin flags /\ n.kind = "file"
                        THEN [fsys EXCEPT !.inodes[n.ino].size = 0]
                        ELSE fsys]

\* mkdirat(2): a new directory named base in the directory dirh is open on.
KMkdirat(fsys, dirh, base, mode) ==
  LET loc == Append(dirh.loc, base[1]) IN
  IF ~IsDir(fsys, dirh.loc) THEN [err |-> "ENOTDIR", fs |-> fsys]
  ELSE IF base[1] \in {".", "..", ""} \/ Exists(fsys, loc) THEN [err |-> "EEXIST", fs |-> fsys]
  ELSE [err |-> "ok", fs |-> AddNode(fsys, loc, DirNode(NewIno(fsys)), mode)]

\* symlinkat(2): the target is stored as given and is not resolved.
KSymlinkat(fsys, isAbs, tgt, dirh, base) ==
  LET loc == Append(dirh.loc, base[1]) IN
  IF ~IsDir(fsys, dirh.loc) THEN [err |-> "ENOTDIR", fs |-> fsys]
  ELSE IF base[1] \in {".", "..", ""} \/ Exists(fsys, loc) THEN [err |-> "EEXIST", fs |-> fsys]
  ELSE [err |-> "ok", fs |-> AddNode(fsys, loc, LinkNode(NewIno(fsys), isAbs, tgt), {"r", "w", "x"})]

\* ------------------------------------------------------- the world record

Ev(c, a, r) == [call |-> c, arg |-> a, res |-> r]

Emit(w, c, a, r) == [w EXCEPT !.trace = Append(@, Ev(c, a, r))]

Res(w, e, h) == [w |-> w, err |-> e, h |-> h]

\* f.Close() / unix.Close(fd).
Close(w) == Emit(w, "close", "", "ok")

\* --------------------------------------------------- root-confined opener

\* securejoin.SecureJoin(root, unsafePath) for root = /proc/self/fd/N: the
\* components of the joined path below the directory rootLoc.  Each
\* component is cleaned lexically against what is resolved so far, looked
\* up with lstat, and a symbolic link is expanded in front of the rest (an
\* absolute one resets the resolved part).
RECURSIVE SecureJoinLoop(_, _, _, _, _)
SecureJoinLoop(fsys, rootLoc, path, unsafePath, n) ==
  IF unsafePath = <<>> THEN [err |-> "ok", path |-> CleanRooted(path)]
  ELSE IF n > MaxFollow THEN [err |-> "ELOOP", path |-> <<>>]
  ELSE LET p      == Head(unsafePath)
           rest   == Tail(unsafePath)
           cleanP == CleanRooted(Append(path, p))
           st     == Walk(fsys, <<>>, rootLoc, cleanP, FALSE, MaxFollow)
       IN IF cleanP = <<>> THEN SecureJoinLoop(fsys, rootLoc, <<>>, rest, n)
          ELSE IF st.err \notin {"ok", "ENOENT", "ENOTDIR"}
               THEN [err |-> st.err, path |-> <<>>]
          ELSE IF st.err # "ok" \/ ~IsLink(fsys, st.loc)
               THEN SecureJoinLoop(fsys, rootLoc, Append(path, p), rest, n)
          ELSE SecureJoinLoop(fsys, rootLoc,
                              IF fsys.nodes[st.loc].abs THEN <<>> ELSE path,
                              fsys.nodes[st.loc].target \o rest, n + 1)

SecureJoin(fsys, rootLoc, unsafePath) == SecureJoinLoop(fsys, rootLoc, <<>>, unsafePath, 0)

InsideRootUnchecked(target, targetRoot) == TRUE

\* The containment check of the fallback: the opened descriptor's real path
\* has the root's real path as a string prefix.
InsideRoot(target, targetRoot) == HasPrefix(Render(target), Render(targetRoot))

\* The world after a system call that returned op: its effect on the
\* filesystem and its record.
Sys(w, call, arg, op) == Emit([w EXCEPT !.fs = op.fs], call, arg, op.err)

\* openFileUnderRootFallback from the Readlink of the opened descriptor on:
\* w is the world after the open that returned op.
FallbackVerify(w, op, targetRoot) ==
  IF op.err # "ok" THEN Res(w, op.err, NoHandle)
  ELSE IF ~InsideRoot(op.h.loc, targetRoot) THEN Res(Close(w), "Escape", NoHandle)
  ELSE Res(w, "ok", op.h)

\* The open of the fallback returned op in world w; with deferClose the
\* deferred unix.Close(parentDirfd) of the O_NOFOLLOW branch is pending.
FallbackOpened(w, op, targetRoot, deferClose) ==
  FallbackVerify(IF deferClose THEN Close(Sys(w, "openat", "", op))
                 ELSE Sys(w, "openat", "", op),
                 op, targetRoot)

\* The O_NOFOLLOW branch after unix.Open(root, O_PATH) returned pd: the last
\* component is opened relative to it (an empty one is ENOENT).
FallbackNoFollow(w, pd, baseName, flags, mode, targetRoot) ==
  IF pd.err # "ok" THEN Res(Emit(w, "open", "parent", pd.err), pd.err, NoHandle)
  ELSE FallbackOpened(Emit(w, "open", "parent", "ok"),
                      IF baseName \in {<<>>, <<"">>}
                      THEN [err |-> "ENOENT", h |-> NoHandle, fs |-> w.fs]
                      ELSE KOpen(w.fs, <<>>, pd.h.loc, baseName, flags, mode),
                      targetRoot, TRUE)

\* openFileUnderRootFallback after SecureJoin returned join (called tells
\* whether it was called: the O_NOFOLLOW branch skips it for a name without
\* a directory part).
FallbackJoined(w, dirfd, join, called, name, flags, mode) ==
  IF join.err # "ok" THEN Res(Emit(w, "securejoin", "", join.err), join.err, NoHandle)
  ELSE IF "O_NOFOLLOW" \in flags
  THEN FallbackNoFollow(IF called THEN Emit(w, "securejoin", "", "ok") ELSE w,
                        KOpen(w.fs, <<>>, dirfd.loc, join.path, {"O_PATH"}, {}),
                        SplitBase(name), flags, mode, dirfd.loc)
  ELSE FallbackOpened(Emit(w, "securejoin", "", "ok"),
                      KOpen(w.fs, <<>>, dirfd.loc, join.path, flags, mode),
                      dirfd.loc, FALSE)

\* openFileUnderRootFallback: os.Readlink(/proc/self/fd/N) of the root
\* fails with ENOENT where /proc is not mounted.
openFileUnderRootFallback(w, dirfd, name, flags, mode) ==
  IF ~w.fs.proc THEN Res(Emit(w, "readlink", "root", "ENOENT"), "ENOENT", NoHandle)
  ELSE
  FallbackJoined(w, dirfd,
                 IF "O_NOFOLLOW" \in flags
                 THEN IF SplitDir(name) # <<>> /\ SplitDir(name) # <<".">>
                      THEN SecureJoin(w.fs, dirfd.loc, SplitDir(name))
                      ELSE [err |-> "ok", path |-> <<>>]
                 ELSE SecureJoin(w.fs, dirfd.loc, name),
                 "O_NOFOLLOW" \notin flags \/ SplitDir(name) # <<>>,
                 name, flags, mode)

\* The result of unix.Openat2 as the (fd, err) pair of the opener.
Openat2Result(w, op) == Res(Sys(w, "openat2", "", op), op.err, op.h)

\* openat2 without RESOLVE_IN_ROOT: ".." and absolute links reach "/".
openFileUnderRootOpenat2Unconfined(w, dirfd, name, flags, mode) ==
  IF ~haveOpenat2 THEN Res(Emit(w, "openat2", "", "ENOSYS"), "ENOSYS", NoHandle)
  ELSE Openat2Result(w, KOpen(w.fs, <<>>, dirfd.loc, name, flags, mode))

openFileUnderRootOpenat2(w, dirfd, name, flags, mode) ==
  IF ~haveOpenat2 THEN Res(Emit(w, "openat2", "", "ENOSYS"), "ENOSYS", NoHandle)
  ELSE Openat2Result(w, KOpen(w.fs, dirfd.loc, dirfd.loc, name, flags, mode))

\* openFileUnderRootRaw after the flag was read as s (the load of
\* skipOpenat2) and, when it was clear, openat2 returned r.
RawLoaded(w, s, r, dirfd, name, flags, mode) ==
  IF s > 0 THEN openFileUnderRootFallback(w, dirfd, name, flags, mode)
  ELSE IF r.err = "ENOSYS"
  THEN openFileUnderRootFallback([r.w EXCEPT !.skip = 1], dirfd, name, flags, mode)
  ELSE r

\* The opener without the load of skipOpenat2: openat2 is tried each time.
openFileUnderRootRawNoLoad(w, dirfd, name, flags, mode) ==
  IF name = <<>> THEN Res(Emit(w, "dup", "", "ok"), "ok", dirfd)
  ELSE RawLoaded(w, 0, openFileUnderRootOpenat2(w, dirfd, name, flags, mode),
                 dirfd, name, flags, mode)

openFileUnderRootRaw(w, dirfd, name, flags, mode) ==
  IF name = <<>> THEN Res(Emit(w, "dup", "", "ok"), "ok", dirfd)
  ELSE RawLoaded(w, w.skip,
                 IF w.skip > 0 THEN Res(w, "ok", NoHandle)
                 ELSE openFileUnderRootOpenat2(w, dirfd, name, flags, mode),
                 dirfd, name, flags, mode)

\* openOrCreateDirUnderRoot after the second open returned r3: pDir is
\* closed by the deferred Close.
EnsureReopened(r3) ==
  IF r3.err = "ok" THEN Res(Close(r3.w), "ok", r3.h)
  ELSE Res(Close(r3.w), r3.err, NoHandle)

\* openOrCreateDirUnderRoot after unix.Mkdirat returned mk: any failure of
\* it returns the error of the first open.
EnsureMade(pDir, mk, baseName, err) ==
  IF mk.err # "ok" THEN Res(Close(Sys(pDir.w, "mkdirat", "", mk)), err, NoHandle)
  ELSE EnsureReopened(openFileUnderRootRaw(Sys(pDir.w, "mkdirat", "", mk), pDir.h,
                                           baseName, {"O_DIRECTORY"}, {}))

\* openOrCreateDirUnderRoot after the recursive call on the parent returned.
EnsureParent(pDir, name, mode, err) ==
  IF pDir.err # "ok" THEN Res(pDir.w, err, NoHandle)
  ELSE EnsureMade(pDir, KMkdirat(pDir.w.fs, pDir.h, Base(name), mode), Base(name), err)

RECURSIVE openOrCreateDirUnderRoot(_, _, _, _)

\* openOrCreateDirUnderRoot after the first open returned r.
EnsureFirst(r, dirfd, name, mode) ==
  IF r.err = "ok" THEN r
  ELSE IF r.err = "ENOENT" /\ Dir(name) # <<>>
  THEN EnsureParent(openOrCreateDirUnderRoot(r.w, dirfd, Dir(name), mode), name, mode, r.err)
  ELSE Res(r.w, r.err, NoHandle)

openOrCreateDirUnderRoot(w, dirfd, name, mode) ==
  EnsureFirst(openFileUnderRootRaw(w, dirfd, name, {"O_DIRECTORY"}, {}), dirfd, name, mode)

\* A call made by a function of this layer returned r: the trace records
\* the call and its result.
Called(r, call, arg) == [r EXCEPT !.w = Emit(@, call, arg, r.err)]

\* openFileUnderRoot after the retry returned r2: newDirfd is closed by the
\* deferred Close, and a failure returns the error of the first open.
OpenRetried(r2, err) ==
  IF r2.err = "ok" THEN Res(Close(r2.w), "ok", r2.h)
  ELSE Res(Close(r2.w), err, NoHandle)

\* openFileUnderRoot after openOrCreateDirUnderRoot(parent) returned.
OpenParentEnsured(newDirfd, name, flags, mode, err) ==
  IF newDirfd.err # "ok" THEN Res(newDirfd.w, err, NoHandle)
  ELSE OpenRetried(Called(openFileUnderRootRaw(newDirfd.w, newDirfd.h, Base(name),
                                               flags, mode),
                          "openFileUnderRootRaw", "retry"), err)

\* The cycle is entered on every error of the first open, with or without
\* O_CREAT.
OpenFirstAnyError(r, dirfd, name, flags, mode) ==
  IF r.err = "ok" THEN r
  ELSE OpenParentEnsured(Called(openOrCreateDirUnderRoot(r.w, dirfd, Dir(name), {}),
                                "openOrCreateDirUnderRoot", "parent"),
                         name, flags, mode, r.err)

\* openFileUnderRoot after the first open returned r.
OpenFirst(r, dirfd, name, flags, mode) ==
  IF r.err = "ok" THEN r
  ELSE IF r.err = "ENOENT" /\ "O_CREAT" \in flags /\ Dir(name) # <<>>
  THEN OpenParentEnsured(Called(openOrCreateDirUnderRoot(r.w, dirfd, Dir(name), {}),
                                "openOrCreateDirUnderRoot", "parent"),
                         name, flags, mode, r.err)
  ELSE Res(r.w, r.err, NoHandle)

openFileUnderRoot(w, dirfd, name, flags, mode) ==
  OpenFirst(Called(openFileUnderRootRaw(w, dirfd, name, flags, mode),
                   "openFileUnderRootRaw", "first"),
            dirfd, name, flags, mode)

\* A directory part of filepath.Split that names a directory to ensure.
HasDirPart(dir) == dir # <<>> /\ dir # <<".">>

\* safeSymlink after unix.Symlinkat returned sl; with ensured the deferred
\* Close of the parent runs.
SymlinkMade(w, sl, ensured) ==
  Res(IF ensured THEN Close(Sys(w, "symlinkat", "", sl)) ELSE Sys(w, "symlinkat", "", sl),
      sl.err, NoHandle)

\* safeSymlink after the parent was ensured (f; the dirfd itself when the
\* name has no directory part): the link is created with the target as given.
SymlinkInParent(f, ensured, isAbs, linkname, destBase) ==
  IF f.err # "ok" THEN Res(f.w, f.err, NoHandle)
  ELSE SymlinkMade(f.w, KSymlinkat(f.w.fs, isAbs, linkname, f.h, destBase), ensured)

\* safeSymlink: the parent is ensured with the directory part of Split (it
\* keeps its trailing separator).
safeSymlink(w, dirfd, name, isAbs, linkname) ==
  SymlinkInParent(IF HasDirPart(SplitDir(name))
                  THEN openOrCreateDirUnderRoot(w, dirfd, SplitDir(name), {})
                  ELSE Res(w, "ok", dirfd),
                  HasDirPart(SplitDir(name)), isAbs, linkname, SplitBase(name))

\* ------------------------------------------- the session: sequential calls

\* The machine before the session: "/", the checkout root /r (empty), a
\* sibling /r2 whose name starts with the root's, and /etc/passwd outside.
BaseFS ==
  [nodes  |-> (<<>> :> DirNode(1)) @@ (<<"r">> :> DirNode(2)) @@ (<<"etc">> :> DirNode(3))
              @@ (<<"etc", "passwd">> :> FileNode(4)) @@ (<<"r2">> :> DirNode(5)),
   inodes |-> [i \in 1..5 |-> [uid |-> 0, gid |-> 0, mode |-> {"r"}, size |-> IF i = 4 THEN 1 ELSE 0,
                               xattrs |-> {}, mtime |-> 0]],
   proc   |-> TRUE]

\* The flag combinations the callers of this file pass, and a plain create.
newFileFlags == {"O_CREAT", "O_TRUNC", "O_EXCL", "O_WRONLY"}

OpenFlagSets ==
  { {}, newFileFlags, {"O_PATH", "O_NOFOLLOW"}, {"O_CREAT", "O_WRONLY"} }

OpenNames ==
  { <<>>, <<"..">>, <<"a">>, <<"a", "b">>, <<"etc", "passwd">> }

EnsureNames == { <<"a", "">>, <<"a", "b">>, <<"etc">> }

SymlinkNames == { <<"a">>, <<"a", "b">> }

\* Link targets: (absolute?, components).
SymlinkTargets ==
  { <<FALSE, <<"..", "..", "etc", "passwd">> >>, <<TRUE, <<"etc", "passwd">> >>,
    <<FALSE, <<"..">> >> }

World == [fs |-> fs, skip |-> skipOpenat2, trace |-> <<>>]

\* Before the first call of a session.  A call is recorded with its name,
\* its path and flags, the error and handle it returned, the step that
\* failed (what) and its other arguments (args).
NoCall ==
  [op |-> "init", name |-> <<>>, flags |-> {}, err |-> "ok", h |-> NoHandle,
   what |-> "", args |-> <<>>]

Done(op, name, flags, r) ==
  /\ fs' = r.w.fs
  /\ skipOpenat2' = r.w.skip
  /\ trace' = r.w.trace
  /\ last' = [op |-> op, name |-> name, flags |-> flags, err |-> r.err, h |-> r.h,
               what |-> "", args |-> <<>>]
  /\ UNCHANGED <<haveOpenat2, metadata, notFS>>

\* No entry is being materialized.
NoMetadata ==
  [Name |-> <<>>, Linkname |-> <<>>, Type |-> "", UID |-> 0, GID |-> 0, Xattrs |-> <<>>,
   ModTime |-> 0,
   skipSetAttrs |-> FALSE]

\* No file is open for appendHole.
HoleIdle ==
  /\ hfile = [size |-> 0, pos |-> 0, written |-> 0, writable |-> FALSE]
  /\ hole = [S |-> 0, P |-> 0, N |-> 0, err |-> "none"]

\* No GetBlobAt call was made.
BlobIdle ==
  /\ chunks = <<>>
  /\ producer = [pc |-> "none", i |-> 0]
  /\ streams = [closed |-> FALSE, offer |-> <<>>]
  /\ errs = [closed |-> FALSE, sent |-> 0]
  /\ consumer = [state |-> "none", got |-> <<>>]

InitFS ==
  /\ fs = BaseFS
  /\ skipOpenat2 = 0
  /\ haveOpenat2 \in BOOLEAN
  /\ last = NoCall
  /\ trace = <<>>
  /\ metadata = NoMetadata
  /\ workers = <<>>
  /\ BlobIdle /\ HoleIdle

OpenFileUnderRoot ==
  \E name \in OpenNames, flags \in OpenFlagSets :
    Done("openFileUnderRoot", name, flags,
         openFileUnderRoot(World, Fd(fs, RootLoc), name, flags, {"r", "w"}))

OpenOrCreateDirUnderRoot ==
  \E name \in EnsureNames :
    Done("openOrCreateDirUnderRoot", name, {},
         openOrCreateDirUnderRoot(World, Fd(fs, RootLoc), name, {}))

SafeSymlink ==
  \E name \in SymlinkNames, t \in SymlinkTargets :
    Done("safeSymlink", name, {},
         safeSymlink(World, Fd(fs, RootLoc), name, t[1], t[2]))

NextFS == OpenFileUnderRoot \/ OpenOrCreateDirUnderRoot \/ SafeSymlink

SpecFS == InitFS /\ [][NextFS]_vars

\* ------------------------------------------------------ chunked blob reader

\* Chunks in one GetBlobAt call.
MaxChunks == 3

ChunkOffsets == {0, 20}

ChunkLengths == {5, 10}

ImageSourceChunk == [Offset : ChunkOffsets, Length : ChunkLengths]

RECURSIVE SeqsUpTo(_, _)
SeqsUpTo(S, n) ==
  IF n = 0 THEN {<<>>}
  ELSE SeqsUpTo(S, n - 1) \cup {Append(q, x) : q \in SeqsUpTo(S, n - 1), x \in S}

\* io.NopCloser(io.NewSectionReader(f.reader, off, n)): a reader of the
\* shared source that starts at off and stops at off + n.
SectionReaderSwapped(chunk) == [off |-> chunk.Length, limit |-> chunk.Length + chunk.Offset]

SectionReader(chunk) == [off |-> chunk.Offset, limit |-> chunk.Offset + chunk.Length]

\* No file is open on the filesystem side.
FSIdle ==
  /\ fs = BaseFS
  /\ skipOpenat2 = 0
  /\ haveOpenat2 = TRUE
  /\ last = NoCall
  /\ trace = <<>>

InitBlob == FSIdle /\ BlobIdle /\ HoleIdle /\ metadata = NoMetadata /\ workers = <<>>

\* GetBlobAt: makes the two unbuffered channels, starts the goroutine and
\* returns (streams, errs, nil).
GetBlobAt ==
  /\ producer.pc = "none"
  /\ \E c \in SeqsUpTo(ImageSourceChunk, MaxChunks) : chunks' = c
  /\ producer' = [pc |-> "range", i |-> 1]
  /\ consumer' = [state |-> "receiving", got |-> <<>>]
  /\ last' = [last EXCEPT !.op = "GetBlobAt", !.err = "nil"]
  /\ UNCHANGED <<streams, errs, fs, skipOpenat2, haveOpenat2, trace>>
  /\ UNCHANGED <<holeVars, metadata, workers>>

\* The send on a channel with room for the view: the goroutine goes on
\* without a receiver.
ProducerSendBuffered ==
  /\ producer.pc = "range" /\ producer.i <= Len(chunks)
  /\ streams' = [streams EXCEPT !.offer = <<SectionReader(chunks[producer.i])>>]
  /\ producer' = [producer EXCEPT !.i = @ + 1]
  /\ UNCHANGED <<chunks, errs, consumer, notBlob>>

\* The goroutine reaches the send of the next view and blocks on it.
ProducerSend ==
  /\ producer.pc = "range" /\ producer.i <= Len(chunks)
  /\ streams' = [streams EXCEPT !.offer = <<SectionReader(chunks[producer.i])>>]
  /\ producer' = [producer EXCEPT !.pc = "send"]
  /\ UNCHANGED <<chunks, errs, consumer, notBlob>>

\* The rendezvous: the consumer receives the offered view and the goroutine
\* goes on with the next chunk.
ConsumerReceive ==
  /\ consumer.state = "receiving" /\ producer.pc = "send"
  /\ consumer' = [consumer EXCEPT !.got = Append(@, streams.offer[1])]
  /\ streams' = [streams EXCEPT !.offer = <<>>]
  /\ producer' = [pc |-> "range", i |-> producer.i + 1]
  /\ UNCHANGED <<chunks, errs, notBlob>>

\* close(streams), after the range is exhausted.
CloseStreams ==
  /\ producer.pc = "range" /\ producer.i > Len(chunks)
  /\ streams' = [streams EXCEPT !.closed = TRUE]
  /\ producer' = [producer EXCEPT !.pc = "closeErrs"]
  /\ UNCHANGED <<chunks, errs, consumer, notBlob>>

\* close(errs).
CloseErrs ==
  /\ producer.pc = "closeErrs"
  /\ errs' = [errs EXCEPT !.closed = TRUE]
  /\ producer' = [producer EXCEPT !.pc = "done"]
  /\ UNCHANGED <<chunks, streams, consumer, notBlob>>

\* The consumer's receive on the closed data channel: it has seen the end.
ConsumerSeesClose ==
  /\ consumer.state = "receiving" /\ streams.closed
  /\ consumer' = [consumer EXCEPT !.state = "drained"]
  /\ UNCHANGED <<chunks, producer, streams, errs, notBlob>>

\* The consumer gives up receiving (nothing cancels the goroutine).
ConsumerAbandons ==
  /\ consumer.state = "receiving" /\ ~streams.closed
  /\ consumer' = [consumer EXCEPT !.state = "abandoned"]
  /\ UNCHANGED <<chunks, producer, streams, errs, notBlob>>

NextBlob ==
  \/ GetBlobAt \/ ProducerSend \/ ConsumerReceive \/ CloseStreams \/ CloseErrs
  \/ ConsumerSeesClose \/ ConsumerAbandons

SpecBlob == InitBlob /\ [][NextBlob]_vars

\* The goroutine is scheduled fairly, and a consumer that has not given up
\* takes the view that is offered to it.
SpecBlobFair ==
  /\ SpecBlob
  /\ WF_vars(ProducerSend) /\ WF_vars(CloseStreams) /\ WF_vars(CloseErrs)
  /\ WF_vars(ConsumerReceive)

\* --------------------------------------------------------------- appendHole

\* Bytes in the file when it is opened, in one write, and in one hole.
MaxFileBytes == 3

MaxHoleBytes == 2

\* A seek with SEEK_END: the position becomes the size plus size.
SeekEnd(f, size) == [f EXCEPT !.pos = f.size + size]

\* unix.Seek(fd, size, SEEK_CUR): the position moves by size and is returned.
Seek(f, size) == [f EXCEPT !.pos = f.pos + size]

\* unix.Ftruncate(fd, off): the size becomes off; EINVAL on a descriptor
\* that is not open for writing.  The position is not moved.
Ftruncate(f, off) ==
  IF f.writable THEN [err |-> "ok", f |-> [f EXCEPT !.size = off]]
  ELSE [err |-> "EINVAL", f |-> f]

\* appendHole after the seek moved the file to g.
HoleSeeked(f, g, size) ==
  [f   |-> Ftruncate(g, g.pos).f,
   rec |-> [S |-> f.size, P |-> f.pos, N |-> size, err |-> Ftruncate(g, g.pos).err]]

appendHole(f, size) == HoleSeeked(f, Seek(f, size), size)

\* A file is open: an existing one at position 0 (as the O_WRONLY reopen of
\* safeLink gives) or a new empty one, for writing or not.
InitHole ==
  /\ \E s \in 0..MaxFileBytes, wr \in BOOLEAN :
       hfile = [size |-> s, pos |-> 0, written |-> 0, writable |-> wr]
  /\ hole = [S |-> 0, P |-> 0, N |-> 0, err |-> "none"]
  /\ FSIdle /\ BlobIdle /\ metadata = NoMetadata /\ workers = <<>>

\* The caller writes k bytes of chunk data at the position.
WriteChunk ==
  /\ hfile.writable /\ hfile.pos < 2 * MaxFileBytes
  /\ \E k \in 1..MaxHoleBytes :
       hfile' = [hfile EXCEPT !.pos = @ + k, !.written = @ + k,
                              !.size = IF hfile.pos + k > @ THEN hfile.pos + k ELSE @]
  /\ hole' = [hole EXCEPT !.err = "none"]
  /\ UNCHANGED notHole

AppendHole ==
  /\ hfile.pos < 2 * MaxFileBytes
  /\ \E n \in 0..MaxHoleBytes :
       /\ hfile' = appendHole(hfile, n).f
       /\ hole' = appendHole(hfile, n).rec
  /\ UNCHANGED notHole

NextHole == WriteChunk \/ AppendHole

SpecHole == InitHole /\ [][NextHole]_vars

\* ------------------------------------------------------------ setFileAttrs

\* UTIME_OMIT: the nanoseconds value that leaves a timestamp as it is.
UtimeOmit == 1073741822

\* timeToTimespec; the time 0 stands for a nil or zero time.Time.
timeToTimespec(t) ==
  IF t = 0 THEN [Sec |-> 0, Nsec |-> UtimeOmit] ELSE [Sec |-> t, Nsec |-> 0]

\* typeToTarType: the tar type of an entry type, an error for an unknown one.
typeToTarType(t) ==
  IF t \in {"reg", "dir", "symlink", "link"} THEN [err |-> "ok", t |-> t]
  ELSE [err |-> "unknown type", t |-> ""]

\* The reserved attribute names the layer never sets.
xattrsToIgnore == {"security.selinux"}

\* base64.StdEncoding.DecodeString on the stored values the model uses.
DecodeString(v) ==
  CASE v = "dmFs" -> [err |-> "ok", data |-> "val"]
    [] v = ""     -> [err |-> "ok", data |-> ""]
    [] OTHER      -> [err |-> "CorruptInputError", data |-> ""]

\* Only success passes.
canIgnoreNothing(err) == err = "ok"

canIgnore(err) == err \in {"ok", "ENOSYS", "ENOTSUP"}

skippedNever(md) == FALSE

\* The test of metadata.skipSetAttrs that opens setFileAttrs.
skipped(md) == md.skipSetAttrs

\* The error setFileAttrs returns: the error and the step it names.
AttrRes(w, e, what) ==
  [w |-> w, err |-> e, h |-> NoHandle, what |-> IF e = "ok" THEN "" ELSE what]

\* The node an attribute call acts on: the one the descriptor is open on,
\* or with usePath the entry baseName of dirfd, a final link not followed.
AttrTarget(fsys, c) ==
  IF c.usePath THEN Walk(fsys, <<>>, c.dirfd.loc, c.baseName, FALSE, MaxFollow)
  ELSE [err |-> "ok", loc |-> c.fd.loc, leaf |-> FALSE]

\* fchown(2)/fchownat(2) answering res: a success sets the owner and clears
\* the set-id bits of the mode.
KChown(fsys, at, uid, gid, res) ==
  IF at.err # "ok" THEN [err |-> at.err, fs |-> fsys]
  ELSE IF res # "ok" THEN [err |-> res, fs |-> fsys]
  ELSE [err |-> "ok",
        fs  |-> [fsys EXCEPT !.inodes[fsys.nodes[at.loc].ino] =
                   [@ EXCEPT !.uid = uid, !.gid = gid, !.mode = @ \ {"suid"}]]]

\* fsetxattr(2) on the descriptor answering res.
KSetxattr(fsys, fd, key, data, res) ==
  IF res # "ok" THEN [err |-> res, fs |-> fsys]
  ELSE [err |-> "ok",
        fs  |-> [fsys EXCEPT !.inodes[fd.ino].xattrs =
                   {x \in @ : x[1] # key} \cup {<<key, data>>}]]

\* utimensat(2) answering res: UTIME_OMIT leaves the time as it is.
KUtimes(fsys, at, ts, res) ==
  IF at.err # "ok" THEN [err |-> at.err, fs |-> fsys]
  ELSE IF res # "ok" THEN [err |-> res, fs |-> fsys]
  ELSE [err |-> "ok",
        fs  |-> [fsys EXCEPT !.inodes[fsys.nodes[at.loc].ino].mtime =
                   IF ts.Nsec = UtimeOmit THEN @ ELSE ts.Sec]]

\* fchmod(2)/fchmodat(2) answering res: the mode of a symbolic link itself
\* cannot be changed (ENOTSUP with AT_SYMLINK_NOFOLLOW).
KChmod(fsys, at, mode, res) ==
  IF at.err # "ok" THEN [err |-> at.err, fs |-> fsys]
  ELSE IF IsLink(fsys, at.loc) THEN [err |-> "ENOTSUP", fs |-> fsys]
  ELSE IF res # "ok" THEN [err |-> res, fs |-> fsys]
  ELSE [err |-> "ok",
        fs  |-> [fsys EXCEPT !.inodes[fsys.nodes[at.loc].ino].mode = mode]]

\* A failure of doChown is fatal whatever the options say.
ChownStepAlwaysFatal(w, c, op) ==
  AttrRes(Sys(w, IF c.usePath THEN "fchownat" ELSE "fchown", "", op), op.err, "chown")

\* doChown returned op: fatal unless options.IgnoreChownErrors.
ChownStep(w, c, op) ==
  AttrRes(Sys(w, IF c.usePath THEN "fchownat" ELSE "fchown", "", op),
          IF op.err # "ok" /\ ~c.options.IgnoreChownErrors THEN op.err ELSE "ok",
          "chown")

\* doUtimes returned op.
UtimesStep(w, c, op) ==
  AttrRes(Sys(w, "utimensat", "", op), IF canIgnore(op.err) THEN "ok" ELSE op.err,
          "set utimes")

\* doChmod returned op.
ChmodStep(w, c, op) ==
  AttrRes(Sys(w, IF c.usePath THEN "fchmodat" ELSE "fchmod", "", op),
          IF canIgnore(op.err) THEN "ok" ELSE op.err, "chmod")

RECURSIVE XattrLoop(_, _, _)

\* The loop body after doSetXattr(k, data) returned op.
XattrSet(w, c, keys, op) ==
  IF ~canIgnore(op.err)
  THEN AttrRes(Sys(w, "fsetxattr", Head(keys), op), op.err, "set xattr")
  ELSE XattrLoop(Sys(w, "fsetxattr", Head(keys), op), c, Tail(keys))

\* A value that does not decode is passed over.
XattrDecodedSkipping(w, c, keys, dec) ==
  IF dec.err # "ok" THEN XattrLoop(w, c, Tail(keys))
  ELSE XattrSet(w, c, keys,
                KSetxattr(w.fs, c.fd, Head(keys), dec.data, c.env.setxattr))

\* The loop body after the value of k was decoded.
XattrDecoded(w, c, keys, dec) ==
  IF dec.err # "ok" THEN AttrRes(w, dec.err, "decode xattr")
  ELSE XattrSet(w, c, keys,
                KSetxattr(w.fs, c.fd, Head(keys), dec.data, c.env.setxattr))

\* for k, v := range metadata.Xattrs, over the keys in the order the map
\* iteration yields them.
XattrLoop(w, c, keys) ==
  IF keys = <<>> THEN AttrRes(w, "ok", "")
  ELSE IF Head(keys) \in xattrsToIgnore THEN XattrLoop(w, c, Tail(keys))
  ELSE XattrDecoded(w, c, keys, DecodeString(c.metadata.Xattrs[Head(keys)]))

\* One of the four attribute steps.
AttrStep(w, c, step) ==
  CASE step = "chown"  ->
         ChownStep(w, c, KChown(w.fs, AttrTarget(w.fs, c), c.metadata.UID,
                                c.metadata.GID, c.env.chown))
    [] step = "xattrs" -> XattrLoop(w, c, c.env.range)
    [] step = "utimes" ->
         UtimesStep(w, c, KUtimes(w.fs, AttrTarget(w.fs, c),
                                  timeToTimespec(c.metadata.ModTime), c.env.utimes))
    [] step = "chmod"  ->
         ChmodStep(w, c, KChmod(w.fs, AttrTarget(w.fs, c), c.mode, c.env.chmod))

\* The mode set before the ownership.
AttrOrderModeFirst == <<"chmod", "chown", "xattrs", "utimes">>

\* The statements of setFileAttrs that apply attributes, in program order.
AttrOrder == <<"chown", "xattrs", "utimes", "chmod">>

RECURSIVE AttrRun(_, _, _)

\* A step returned r: an error ends the call.
AttrStepped(r, c, rest) == IF r.err # "ok" THEN r ELSE AttrRun(r.w, c, rest)

AttrRun(w, c, steps) ==
  IF steps = <<>> THEN AttrRes(w, "ok", "")
  ELSE AttrStepped(AttrStep(w, c, Head(steps)), c, Tail(steps))

\* The deferred parentFd.Close().
AttrClosed(r) == [r EXCEPT !.w = Close(r.w)]

\* setFileAttrs with usePath after the open of the parent returned p.
AttrParent(p, c) ==
  IF p.err # "ok" THEN AttrRes(p.w, p.err, "open parent")
  ELSE AttrClosed(AttrRun(p.w, [c EXCEPT !.dirfd = p.h], AttrOrder))

\* setFileAttrs once the file and the type were checked.
AttrTyped(w, c) ==
  IF c.usePath
  THEN AttrParent(openFileUnderRoot(w, c.dirfd, Dir(c.metadata.Name),
                                    {"O_PATH", "O_DIRECTORY"}, {}), c)
  ELSE AttrRun(w, c, AttrOrder)

\* setFileAttrs(dirfd, file, mode, metadata, options, usePath); env is what
\* the kernel answers to each attribute call and the order the iteration of
\* the Xattrs map takes.
setFileAttrs(w, dirfd, file, mode, md, options, usePath, env) ==
  IF skipped(md) THEN AttrRes(w, "ok", "")
  ELSE IF file = NoHandle THEN AttrRes(w, "invalid file", "file")
  ELSE IF typeToTarType(md.Type).err # "ok"
  THEN AttrRes(w, typeToTarType(md.Type).err, "type")
  ELSE AttrTyped(w, [fd |-> file, dirfd |-> dirfd, mode |-> mode,
                     metadata |-> md, options |-> options, env |-> env,
                     usePath  |-> usePath \/ typeToTarType(md.Type).t = "symlink",
                     baseName |-> IF usePath \/ typeToTarType(md.Type).t = "symlink"
                                  THEN Base(md.Name) ELSE <<>>])

\* The checkout with the entries whose attributes are restored: the regular
\* file f, created with a set-id mode, and the symbolic link s to it.
AttrFS ==
  AddNode(AddNode(BaseFS, RootLoc \o <<"f">>, FileNode(6), {"r", "w", "suid"}),
          RootLoc \o <<"s">>, LinkNode(7, FALSE, <<"f">>), {"r", "w", "x"})

\* The Xattrs maps of the entries: none, a valid one, a valid one with a
\* malformed one, a malformed reserved one with a valid one.
XattrMaps ==
  { <<>>,
    ("user.a" :> "dmFs"),
    ("user.a" :> "dmFs") @@ ("user.b" :> "!"),
    ("security.selinux" :> "!") @@ ("user.a" :> "") }

AttrEntries ==
  { [Name |-> <<"f">>, Type |-> "reg"], [Name |-> <<"s">>, Type |-> "symlink"],
    [Name |-> <<"f">>, Type |-> "chunk"] }

AttrModes == { {"r"}, {"r", "suid"} }

\* The orders in which a range over a map with the keys S can yield them.
Orders(S) ==
  { q \in [1..Cardinality(S) -> S] : \A i, j \in DOMAIN q : i # j => q[i] # q[j] }

\* What the kernel can answer to the attribute calls of one setFileAttrs.
KernelAnswers(keys) ==
  [chown : {"ok", "EPERM"}, setxattr : {"ok", "ENOTSUP", "EPERM"},
   utimes : {"ok", "ENOSYS", "EPERM"}, chmod : {"ok", "ENOTSUP", "EPERM"},
   range : Orders(keys)]

InitAttrs ==
  /\ fs = AttrFS
  /\ skipOpenat2 = 0
  /\ haveOpenat2 = TRUE
  /\ last = NoCall
  /\ trace = <<>>
  /\ \E e \in AttrEntries, x \in XattrMaps, t \in {0, 7}, skip \in BOOLEAN :
       metadata = [NoMetadata EXCEPT !.Name = e.Name, !.Type = e.Type, !.UID = 5,
                                     !.GID = 5, !.Xattrs = x, !.ModTime = t,
                                     !.skipSetAttrs = skip]
  /\ workers = <<>>
  /\ BlobIdle /\ HoleIdle

\* setFileAttrs was called with args and returned r.
AttrsDone(args, r) ==
  /\ fs' = r.w.fs
  /\ skipOpenat2' = r.w.skip
  /\ trace' = r.w.trace
  /\ last' = [op |-> "setFileAttrs", name |-> metadata.Name, flags |-> {},
               err |-> r.err, h |-> NoHandle, what |-> r.what, args |-> args]
  /\ UNCHANGED <<haveOpenat2, metadata, notFS>>

\* The attributes of the entry are restored, once, on the handle its
\* materialization returned (nil when it returned none).
SetFileAttrs ==
  /\ last.op = "init"
  /\ \E file \in {NoHandle, Fd(fs, RootLoc \o metadata.Name)}, mode \in AttrModes,
        ign \in BOOLEAN, usePath \in BOOLEAN,
        env \in KernelAnswers(DOMAIN metadata.Xattrs) :
       AttrsDone([file |-> file, mode |-> mode, IgnoreChownErrors |-> ign,
                  usePath |-> usePath, env |-> env],
                 setFileAttrs(World, Fd(fs, RootLoc), file, mode, metadata,
                              [IgnoreChownErrors |-> ign], usePath, env))

SpecAttrs == InitAttrs /\ [][SetFileAttrs]_vars

\* -------------------------------------------------------- copyFileContent

\* Inodes the filesystem may hold before no further entry is materialized.
MaxInodes == 9

\* The number of names of an inode.
Nlink(fsys, ino) == Cardinality({l \in DOMAIN fsys.nodes : fsys.nodes[l].ino = ino})

\* os.Stat(procPathForFd(srcFd)): the attributes of the inode srcFd is open
\* on; an error for a descriptor that is not open.
Stat(fsys, srcFd) ==
  IF srcFd.ino \in DOMAIN fsys.inodes
  THEN [err |-> "ok", size |-> fsys.inodes[srcFd.ino].size,
        uid |-> fsys.inodes[srcFd.ino].uid, gid |-> fsys.inodes[srcFd.ino].gid]
  ELSE [err |-> "ENOENT", size |-> -1, uid |-> -1, gid |-> -1]

\* linkat(AT_FDCWD, /proc/self/fd/N, destDirFd, destBase, AT_SYMLINK_FOLLOW):
\* a new name for the inode srcFd is open on.  res is what the kernel
\* answers for the pair of mounts (EXDEV across file systems); an inode
\* without a name left cannot be linked again, and a directory never.  The
\* new name is a node of the source's kind.
KLinkat(fsys, srcFd, dirh, base, res) ==
  IF srcFd.ino \notin DOMAIN fsys.inodes THEN [err |-> "ENOENT", fs |-> fsys]
  ELSE IF IsDir(fsys, srcFd.loc) /\ fsys.nodes[srcFd.loc].ino = srcFd.ino
  THEN [err |-> "EPERM", fs |-> fsys]
  ELSE IF ~IsDir(fsys, dirh.loc) THEN [err |-> "ENOTDIR", fs |-> fsys]
  ELSE IF base \in {<<>>, <<"">>} THEN [err |-> "ENOENT", fs |-> fsys]
  ELSE IF base[1] \in {".", ".."} \/ Exists(fsys, Append(dirh.loc, base[1]))
  THEN [err |-> "EEXIST", fs |-> fsys]
  ELSE IF res # "ok" THEN [err |-> res, fs |-> fsys]
  ELSE IF Nlink(fsys, srcFd.ino) = 0 THEN [err |-> "ENOENT", fs |-> fsys]
  ELSE [err |-> "ok",
        fs  |-> AddNode(fsys, Append(dirh.loc, base[1]),
                        fsys.nodes[CHOOSE l \in DOMAIN fsys.nodes :
                                     fsys.nodes[l].ino = srcFd.ino], {})]

\* unlinkat(destDirFd, destBase, 0): the name is removed; a directory is not.
KUnlinkat(fsys, dirh, base) ==
  IF base \in {<<>>, <<"">>} \/ ~Exists(fsys, Append(dirh.loc, base[1]))
  THEN [err |-> "ENOENT", fs |-> fsys]
  ELSE IF IsDir(fsys, Append(dirh.loc, base[1])) THEN [err |-> "EISDIR", fs |-> fsys]
  ELSE [err |-> "ok",
        fs  |-> [fsys EXCEPT !.nodes =
                   [l \in DOMAIN fsys.nodes \ {Append(dirh.loc, base[1])} |-> fsys.nodes[l]]]]

\* driversCopy.CopyRegularToFile answering res: the destination gets the
\* content of the source.
CopyRegularToFile(fsys, srcFd, dst, res) ==
  IF res # "ok" THEN [err |-> res, fs |-> fsys]
  ELSE [err |-> "ok",
        fs  |-> [fsys EXCEPT !.inodes[dst.ino].size = fsys.inodes[srcFd.ino].size]]

\* doHardLink after Unlinkat returned ul (its error is dropped) and the
\* second doLink returned lk2; dest is the destination the calls name.
HardLinkUnlinked(w, ul, lk2, dest) ==
  Res(Sys(Sys(w, "unlinkat", dest, ul), "linkat", dest, lk2), lk2.err, NoHandle)

\* The destination is unlinked and the link retried after any failure.
HardLinkTriedAnyError(w, lk, srcFd, destDirFd, destBase, res) ==
  IF lk.err # "ok"
  THEN HardLinkUnlinked(Sys(w, "linkat", destDirFd.loc \o destBase, lk),
                        KUnlinkat(lk.fs, destDirFd, destBase),
                        KLinkat(KUnlinkat(lk.fs, destDirFd, destBase).fs,
                                srcFd, destDirFd, destBase, res),
                        destDirFd.loc \o destBase)
  ELSE Res(Sys(w, "linkat", destDirFd.loc \o destBase, lk), lk.err, NoHandle)

\* doHardLink after the first doLink returned lk.
HardLinkTried(w, lk, srcFd, destDirFd, destBase, res) ==
  IF lk.err = "EEXIST"
  THEN HardLinkUnlinked(Sys(w, "linkat", destDirFd.loc \o destBase, lk),
                        KUnlinkat(lk.fs, destDirFd, destBase),
                        KLinkat(KUnlinkat(lk.fs, destDirFd, destBase).fs,
                                srcFd, destDirFd, destBase, res),
                        destDirFd.loc \o destBase)
  ELSE Res(Sys(w, "linkat", destDirFd.loc \o destBase, lk), lk.err, NoHandle)

\* doHardLink(srcFd, destDirFd, destBase); res is what the kernel answers to
\* a link between the two mounts.
doHardLink(w, srcFd, destDirFd, destBase, res) ==
  HardLinkTried(w, KLinkat(w.fs, srcFd, destDirFd, destBase, res),
                srcFd, destDirFd, destBase, res)

\* What copyFileContent returns, (file, size, err), and the skipSetAttrs it
\* leaves in the entry.
CopyRes(w, e, h, size, skip) ==
  [w |-> w, err |-> e, h |-> h, size |-> size, skip |-> skip]

\* copyFileContent after CopyRegularToFile returned cp.
CopyCopied(w, dst, cp, size, skip) ==
  IF cp.err # "ok" THEN CopyRes(Close(Sys(w, "copy", "", cp)), cp.err, NoHandle, -1, skip)
  ELSE CopyRes(Sys(w, "copy", "", cp), "ok", dst, size, skip)

\* copyFileContent after the creating open returned d.
CopyCreated(d, srcFd, st, skip, env) ==
  IF d.err # "ok" THEN CopyRes(d.w, d.err, NoHandle, -1, skip)
  ELSE CopyCopied(d.w, d.h, CopyRegularToFile(d.w.fs, srcFd, d.h, env.copy), st.size, skip)

\* copyFileContent from the open of the destination with newFileFlags on.
CopyFallback(w, srcFd, md, dirfd, mode, st, env) ==
  CopyCreated(openFileUnderRoot(w, dirfd, md.Name, newFileFlags, mode),
              srcFd, st, md.skipSetAttrs, env)

\* The deferred destDir.Close().
CopyClosed(r) == [r EXCEPT !.w = Close(r.w)]

\* The entry is marked whether the link was made or not.
CopyLinkedAlwaysSkip(l, srcFd, md, dirfd, mode, st, env) ==
  IF l.err = "ok" THEN CopyRes(Close(l.w), "ok", NoHandle, st.size, TRUE)
  ELSE CopyClosed(CopyFallback(l.w, srcFd, [md EXCEPT !.skipSetAttrs = TRUE],
                               dirfd, mode, st, env))

\* copyFileContent after doHardLink returned l.
CopyLinked(l, srcFd, md, dirfd, mode, st, env) ==
  IF l.err = "ok" THEN CopyRes(Close(l.w), "ok", NoHandle, st.size, TRUE)
  ELSE CopyClosed(CopyFallback(l.w, srcFd, md, dirfd, mode, st, env))

\* copyFileContent with useHardLinks after the open of the destination
\* directory returned d.
CopyDirOpened(d, srcFd, md, dirfd, mode, st, env) ==
  IF d.err # "ok" THEN CopyFallback(d.w, srcFd, md, dirfd, mode, st, env)
  ELSE CopyLinked(doHardLink(d.w, srcFd, d.h, SplitBase(md.Name), env.link),
                  srcFd, md, dirfd, mode, st, env)

\* copyFileContent after os.Stat returned st.
CopyStatted(w, st, srcFd, md, dirfd, mode, useHardLinks, env) ==
  IF st.err # "ok" THEN CopyRes(w, st.err, NoHandle, -1, md.skipSetAttrs)
  ELSE IF useHardLinks
  THEN CopyDirOpened(openFileUnderRoot(w, dirfd, SplitDir(md.Name), {}, {}),
                     srcFd, md, dirfd, mode, st, env)
  ELSE CopyFallback(w, srcFd, md, dirfd, mode, st, env)

\* copyFileContent(srcFd, fileMetadata, dirfd, mode, useHardLinks); env is
\* what the kernel answers to the link and what the copy returns.
copyFileContent(w, srcFd, md, dirfd, mode, useHardLinks, env) ==
  CopyStatted(Emit(w, "stat", "", Stat(w.fs, srcFd).err), Stat(w.fs, srcFd),
              srcFd, md, dirfd, mode, useHardLinks, env)

\* The machine with the content sources: the file /r2/src of another layer
\* (2 bytes, owner 7) and a file that was unlinked while it is held open
\* (inode 7, no name).
CopyFS ==
  [nodes  |-> BaseFS.nodes @@ (<<"r2", "src">> :> FileNode(6)),
   inodes |-> [i \in 1..7 |->
                 IF i = 6 THEN [uid |-> 7, gid |-> 7, mode |-> {"r"}, size |-> 2,
                                xattrs |-> {}, mtime |-> 3]
                 ELSE IF i = 7 THEN [uid |-> 7, gid |-> 7, mode |-> {"r"}, size |-> 1,
                                     xattrs |-> {}, mtime |-> 3]
                 ELSE BaseFS.inodes[i]],
   proc   |-> TRUE]

CopyNames == { <<"f">>, <<"d", "f">>, <<"d">> }

\* The descriptors a content source is passed as: the other layer's file,
\* the unlinked file, an earlier entry of this checkout, a closed one.
SrcFds(fsys) ==
  { [loc |-> <<"r2", "src">>, ino |-> 6], [loc |-> <<"r2", "gone">>, ino |-> 7], NoHandle }
  \cup { Fd(fsys, l) : l \in {m \in {RootLoc \o <<"f">>} :
                                Exists(fsys, m) /\ fsys.nodes[m].kind = "file"} }

CopyAnswers == [link : {"ok", "EXDEV"}, copy : {"ok", "EIO"}]

InitCopy ==
  /\ fs = CopyFS
  /\ skipOpenat2 = 0
  /\ haveOpenat2 = TRUE
  /\ last = NoCall
  /\ trace = <<>>
  /\ metadata = NoMetadata
  /\ workers = <<>>
  /\ BlobIdle /\ HoleIdle

\* copyFileContent was called for the entry md and returned r.
CopyDone(md, args, r) ==
  /\ fs' = r.w.fs
  /\ skipOpenat2' = r.w.skip
  /\ trace' = r.w.trace
  /\ metadata' = [md EXCEPT !.skipSetAttrs = r.skip]
  /\ last' = [op |-> "copyFileContent", name |-> md.Name, flags |-> {},
               err |-> r.err, h |-> r.h, what |-> "",
               args |-> [srcFd |-> args.srcFd, useHardLinks |-> args.useHardLinks,
                         skipSetAttrs |-> md.skipSetAttrs, size |-> r.size]]
  /\ UNCHANGED <<haveOpenat2, notFS>>

\* The content of the next entry is materialized from a content source.
CopyFileContent ==
  /\ Cardinality(DOMAIN fs.inodes) < MaxInodes
  /\ \E name \in CopyNames, srcFd \in SrcFds(fs), useHardLinks \in BOOLEAN,
        skip \in BOOLEAN, env \in CopyAnswers :
       CopyDone([NoMetadata EXCEPT !.Name = name, !.Type = "reg", !.skipSetAttrs = skip],
                [srcFd |-> srcFd, useHardLinks |-> useHardLinks],
                copyFileContent(World, srcFd,
                                [NoMetadata EXCEPT !.Name = name, !.Type = "reg",
                                                   !.skipSetAttrs = skip],
                                Fd(fs, RootLoc), {"r", "w"}, useHardLinks, env))

SpecCopy == InitCopy /\ [][CopyFileContent]_vars

\* ------------------------------- safeMkdir, safeLink and the whiteoutHandler

\* The handles are left open.
DeferredForgotten(r, n) == r

\* The deferred Close calls of a function run when it returns r: n handles
\* are closed.
Deferred(r, n) ==
  [r EXCEPT !.w = IF n = 3 THEN Close(Close(Close(@)))
                  ELSE IF n = 2 THEN Close(Close(@))
                  ELSE IF n = 1 THEN Close(@) ELSE @]

\* The directory an entry is created in: the one ensured for the directory
\* part of filepath.Split, the dirfd itself for a name without one.
EntryParent(w, dirfd, name) ==
  IF HasDirPart(SplitDir(name)) THEN openOrCreateDirUnderRoot(w, dirfd, SplitDir(name), {})
  ELSE Res(w, "ok", dirfd)

\* safeMkdir after the open of the directory returned file; held is the
\* number of handles the function holds besides it.
MkdirOpened(file, dirfd, mode, md, options, held, env) ==
  IF file.err # "ok" THEN Deferred(AttrRes(file.w, file.err, "open"), held)
  ELSE Deferred(Called(setFileAttrs(file.w, dirfd, file.h, mode, md, options, FALSE, env),
                       "setFileAttrs", ""),
                held + 1)

\* safeMkdir after unix.Mkdirat returned mk: an existing entry is accepted.
MkdirMade(w, mk, parentFd, dirfd, mode, md, options, held, env) ==
  IF mk.err \notin {"ok", "EEXIST"}
  THEN Deferred(AttrRes(Sys(w, "mkdirat", "", mk), mk.err, "mkdir"), held)
  ELSE MkdirOpened(openFileUnderRoot(Sys(w, "mkdirat", "", mk), parentFd,
                                     SplitBase(md.Name), {"O_DIRECTORY"}, {}),
                   dirfd, mode, md, options, held, env)

\* safeMkdir after the parent was ensured (p).
MkdirInParent(p, dirfd, mode, md, options, held, env) ==
  IF p.err # "ok" THEN AttrRes(p.w, p.err, "open parent")
  ELSE MkdirMade(p.w,
                 IF SplitBase(md.Name) \in {<<>>, <<"">>} THEN [err |-> "ENOENT", fs |-> p.w.fs]
                 ELSE KMkdirat(p.w.fs, p.h, SplitBase(md.Name), mode),
                 p.h, dirfd, mode, md, options, held, env)

\* safeMkdir(dirfd, mode, name, metadata, options); name is metadata.Name.
safeMkdir(w, dirfd, mode, md, options, env) ==
  MkdirInParent(EntryParent(w, dirfd, md.Name), dirfd, mode, md, options,
                IF HasDirPart(SplitDir(md.Name)) THEN 1 ELSE 0, env)

\* The attributes of a link found to be a symbolic link are applied through
\* the handle.
LinkReopenedPathByHandle(newFile, dirfd, mode, md, options, held, env) ==
  IF newFile.err # "ok" THEN Deferred(AttrRes(newFile.w, newFile.err, "open"), held)
  ELSE Deferred(Called(setFileAttrs(newFile.w, dirfd, newFile.h, mode, md, options, FALSE, env),
                       "setFileAttrs", ""),
                held + 1)

\* safeLink after the reopen of the destination as a path handle returned
\* newFile.
LinkReopenedPath(newFile, dirfd, mode, md, options, held, env) ==
  IF newFile.err # "ok" THEN Deferred(AttrRes(newFile.w, newFile.err, "open"), held)
  ELSE Deferred(Called(setFileAttrs(newFile.w, dirfd, newFile.h, mode, md, options, TRUE, env),
                       "setFileAttrs", "usePath"),
                held + 1)

\* safeLink after the reopen of the destination for writing returned newFile.
LinkReopened(newFile, dirfd, mode, md, options, held, env) ==
  IF newFile.err = "ELOOP"
  THEN LinkReopenedPath(openFileUnderRoot(newFile.w, dirfd, md.Name,
                                          {"O_PATH", "O_NOFOLLOW"}, {}),
                        dirfd, mode, md, options, held, env)
  ELSE IF newFile.err # "ok" THEN Deferred(AttrRes(newFile.w, newFile.err, "open"), held)
  ELSE Deferred(Called(setFileAttrs(newFile.w, dirfd, newFile.h, mode, md, options, FALSE, env),
                       "setFileAttrs", ""),
                held + 1)

\* safeLink after doHardLink returned lk.
LinkLinked(lk, dirfd, mode, md, options, held, env) ==
  IF lk.err # "ok" THEN Deferred(AttrRes(lk.w, lk.err, "create hardlink"), held)
  ELSE LinkReopened(openFileUnderRoot(lk.w, dirfd, md.Name, {"O_WRONLY", "O_NOFOLLOW"}, {}),
                    dirfd, mode, md, options, held, env)

\* safeLink after the destination directory was ensured (f), the source
\* being open.
LinkInDir(f, sourceFile, dirfd, mode, md, options, held, env) ==
  IF f.err # "ok" THEN Deferred(AttrRes(f.w, f.err, "open parent"), 1)
  ELSE LinkLinked(Called(doHardLink(f.w, sourceFile, f.h, SplitBase(md.Name), env.link),
                         "doHardLink", ""),
                  dirfd, mode, md, options, held, env)

\* safeLink after the open of metadata.Linkname returned sourceFile.
LinkSource(sourceFile, dirfd, mode, md, options, env) ==
  IF sourceFile.err # "ok" THEN AttrRes(sourceFile.w, sourceFile.err, "open source")
  ELSE LinkInDir(EntryParent(sourceFile.w, dirfd, md.Name), sourceFile.h, dirfd, mode, md,
                 options, IF HasDirPart(SplitDir(md.Name)) THEN 2 ELSE 1, env)

\* safeLink(dirfd, mode, metadata, options).
safeLink(w, dirfd, mode, md, options, env) ==
  LinkSource(openFileUnderRoot(w, dirfd, md.Linkname, {"O_PATH", "O_NOFOLLOW"}, {}),
             dirfd, mode, md, options, env)

\* whiteoutHandler.Setxattr after openOrCreateDirUnderRoot(path) returned
\* file and, on its success, unix.Fsetxattr returned sx.
SetxattrOpened(file, name, sx) ==
  IF file.err # "ok" THEN AttrRes(file.w, file.err, "open")
  ELSE Deferred(AttrRes(Sys(file.w, "fsetxattr", name, sx), sx.err, "set xattr"), 1)

\* whiteoutHandler.Setxattr(path, name, value); res is the kernel's answer.
whiteoutSetxattr(w, dirfd, path, name, value, res) ==
  SetxattrOpened(openOrCreateDirUnderRoot(w, dirfd, path, {}), name,
                 KSetxattr(openOrCreateDirUnderRoot(w, dirfd, path, {}).w.fs,
                           openOrCreateDirUnderRoot(w, dirfd, path, {}).h, name, value, res))

\* mknodat(2) answering res: a device node under a fresh inode.
KMknodat(fsys, dirh, base, mode, res) ==
  IF ~IsDir(fsys, dirh.loc) THEN [err |-> "ENOTDIR", fs |-> fsys]
  ELSE IF base \in {<<>>, <<"">>} THEN [err |-> "ENOENT", fs |-> fsys]
  ELSE IF base[1] \in {".", ".."} \/ Exists(fsys, Append(dirh.loc, base[1]))
  THEN [err |-> "EEXIST", fs |-> fsys]
  ELSE IF res # "ok" THEN [err |-> res, fs |-> fsys]
  ELSE [err |-> "ok",
        fs  |-> AddNode(fsys, Append(dirh.loc, base[1]), FileNode(NewIno(fsys)), mode)]

\* whiteoutHandler.Mknod after the directory part was ensured (dir).
MknodInDir(dir, path, mode, held, res) ==
  IF dir.err # "ok" THEN AttrRes(dir.w, dir.err, "open")
  ELSE Deferred(AttrRes(Sys(dir.w, "mknodat", "", KMknodat(dir.w.fs, dir.h, SplitBase(path), mode, res)),
                        KMknodat(dir.w.fs, dir.h, SplitBase(path), mode, res).err, "mknod"),
                held)

\* whiteoutHandler.Mknod(path, mode, dev).
whiteoutMknod(w, dirfd, path, mode, res) ==
  MknodInDir(EntryParent(w, dirfd, path), path, mode,
             IF HasDirPart(SplitDir(path)) THEN 1 ELSE 0, res)

\* checkChownErr: the message of the returned error; EINVAL is wrapped in
\* the hint about the identity mapping, any other error is returned as is.
checkChownErr(err) ==
  IF err = "EINVAL" THEN "potentially insufficient UIDs or GIDs" ELSE "chown"

\* The failure is forgiven when the owner already matches, whatever the
\* group.
ChownFailedUidOnly(w, err, st, uid, gid) ==
  IF st.err = "ok" /\ st.uid = uid THEN AttrRes(w, "ok", "")
  ELSE AttrRes(w, err, checkChownErr(err))

\* whiteoutHandler.Chown after unix.Fchownat failed with err and unix.Fstat
\* returned st.
ChownFailed(w, err, st, uid, gid) ==
  IF st.err = "ok" /\ st.uid = uid /\ st.gid = gid THEN AttrRes(w, "ok", "")
  ELSE AttrRes(w, err, checkChownErr(err))

\* whiteoutHandler.Chown after the open returned file and, on its success,
\* unix.Fchownat(fd, "", uid, gid, AT_EMPTY_PATH) returned ch.
ChownOpened(file, ch, uid, gid, fstat) ==
  IF file.err # "ok" THEN AttrRes(file.w, file.err, "open")
  ELSE IF ch.err = "ok" THEN Deferred(AttrRes(Sys(file.w, "fchownat", "", ch), "ok", ""), 1)
  ELSE Deferred(ChownFailed(Emit(Sys(file.w, "fchownat", "", ch), "fstat", "", fstat),
                            ch.err,
                            IF fstat = "ok" THEN Stat(file.w.fs, file.h)
                            ELSE [err |-> fstat, size |-> -1, uid |-> -1, gid |-> -1],
                            uid, gid),
                1)

\* whiteoutHandler.Chown(path, uid, gid); env is what the kernel answers to
\* the ownership call and to the fstat.
whiteoutChown(w, dirfd, path, uid, gid, env) ==
  ChownOpened(openFileUnderRoot(w, dirfd, path, {"O_PATH"}, {}),
              KChown(openFileUnderRoot(w, dirfd, path, {"O_PATH"}, {}).w.fs,
                     [err |-> "ok", leaf |-> FALSE,
                      loc |-> openFileUnderRoot(w, dirfd, path, {"O_PATH"}, {}).h.loc],
                     uid, gid, env.chown),
              uid, gid, env.fstat)

\* The checkouts an entry is materialized in: the file f and the link s to
\* it, alone or beside the directory d of an earlier entry with the file
\* d/l in it.
EntryWorlds ==
  { AttrFS,
    AddNode(AddNode(AttrFS, RootLoc \o <<"d">>, DirNode(8), {"r", "x"}),
            RootLoc \o <<"d", "l">>, FileNode(9), {"r"}) }

\* One entry is materialized, on a kernel with or without openat2.
InitEntry ==
  /\ fs \in EntryWorlds
  /\ skipOpenat2 = 0
  /\ haveOpenat2 \in BOOLEAN
  /\ last = NoCall
  /\ trace = <<>>
  /\ metadata = NoMetadata
  /\ workers = <<>>
  /\ BlobIdle /\ HoleIdle

\* The call op was made with args and returned r.
EntryDone(op, name, args, r) ==
  /\ fs' = r.w.fs
  /\ skipOpenat2' = r.w.skip
  /\ trace' = r.w.trace
  /\ last' = [op |-> op, name |-> name, flags |-> {}, err |-> r.err, h |-> NoHandle,
               what |-> r.what, args |-> args]
  /\ UNCHANGED <<haveOpenat2, metadata, notFS>>

\* What the kernel answers to the attribute calls of an entry without
\* extended attributes.
EntryAnswers ==
  [chown : {"ok", "EPERM"}, setxattr : {"ok"}, utimes : {"ok"}, chmod : {"ok", "EPERM"},
   range : {<<>>}, link : {"ok", "EXDEV"}]

\* A directory entry of the layer is materialized.
SafeMkdir ==
  /\ last.op = "init"
  /\ \E name \in { <<"d">>, <<"d", "e">>, <<"f">> }, ign \in BOOLEAN, env \in EntryAnswers :
       EntryDone("safeMkdir", name, [IgnoreChownErrors |-> ign, env |-> env],
                 safeMkdir(World, Fd(fs, RootLoc), {"r", "x"},
                           [NoMetadata EXCEPT !.Name = name, !.Type = "dir", !.UID = 5,
                                              !.GID = 5],
                           [IgnoreChownErrors |-> ign], env))

\* A hard link entry of the layer is materialized.
SafeLink ==
  /\ last.op = "init"
  /\ \E name \in { <<"l">>, <<"d", "l">>, <<"f">>, <<"d">> },
        linkname \in { <<"f">>, <<"s">>, <<"m">> }, env \in EntryAnswers :
       EntryDone("safeLink", name, [Linkname |-> linkname, env |-> env],
                 safeLink(World, Fd(fs, RootLoc), {"r"},
                          [NoMetadata EXCEPT !.Name = name, !.Linkname = linkname,
                                             !.Type = "link", !.UID = 5, !.GID = 5],
                          [IgnoreChownErrors |-> FALSE], env))

\* The whiteout converter marks a directory opaque.
WhiteoutSetxattr ==
  /\ last.op = "init"
  /\ \E path \in { <<"d">>, <<"f">> }, res \in {"ok", "ENOTSUP"} :
       EntryDone("Setxattr", path, [res |-> res],
                 whiteoutSetxattr(World, Fd(fs, RootLoc), path, "trusted.overlay.opaque",
                                  "y", res))

\* The whiteout converter creates a whiteout device.
WhiteoutMknod ==
  /\ last.op = "init"
  /\ \E path \in { <<"w">>, <<"d", "w">> }, res \in {"ok", "EPERM"} :
       EntryDone("Mknod", path, [res |-> res],
                 whiteoutMknod(World, Fd(fs, RootLoc), path, {"c"}, res))

\* The whiteout converter sets the owner of an entry.
WhiteoutChown ==
  /\ last.op = "init"
  /\ \E path \in { <<"f">>, <<"s">>, <<"m">> }, uid \in {0, 5}, gid \in {0, 5},
        env \in [chown : {"ok", "EPERM", "EINVAL"}, fstat : {"ok", "EIO"}] :
       EntryDone("Chown", path, [uid |-> uid, gid |-> gid, env |-> env],
                 whiteoutChown(World, Fd(fs, RootLoc), path, uid, gid, env))

\* One call of an operation of the layer.
NextEntry ==
  \/ SafeMkdir \/ SafeLink \/ WhiteoutSetxattr \/ WhiteoutMknod \/ WhiteoutChown
  \/ last.op = "init" /\ OpenFileUnderRoot
  \/ last.op = "init" /\ OpenOrCreateDirUnderRoot
  \/ last.op = "init" /\ SafeSymlink
  \/ last.op = "init" /\ CopyFileContent

SpecEntry == InitEntry /\ [][NextEntry]_vars

\* ------------------------------------ concurrent openOrCreateDirUnderRoot

\* A call of openOrCreateDirUnderRoot(dirfd, name, mode) in progress: where
\* it stands (before the first open, waiting for the call on the parent,
\* before the mkdirat, before the second open), the error of its first
\* open and pDir.
Frame(name) == [name |-> name, pc |-> "open", err |-> "ok", pDir |-> NoHandle]

Running == [err |-> "running", h |-> NoHandle]

\* The innermost call returned (err, h) to the calls below it on the
\* stack: the caller of a failed call returns the error of its own first
\* open, the caller of a successful one holds pDir and goes on to mkdirat.
RECURSIVE Return(_, _, _)
Return(stack, err, h) ==
  IF stack = <<>> THEN [stack |-> <<>>, res |-> [err |-> err, h |-> h]]
  ELSE IF err # "ok" THEN Return(Tail(stack), Head(stack).err, NoHandle)
  ELSE [stack |-> <<[Head(stack) EXCEPT !.pc = "mkdir", !.pDir = h]>> \o Tail(stack),
        res   |-> Running]

\* The first open of the innermost call returned r.
FirstOpened(stack, r) ==
  IF r.err = "ok" THEN Return(Tail(stack), "ok", r.h)
  ELSE IF r.err = "ENOENT" /\ Dir(Head(stack).name) # <<>>
  THEN [stack |-> <<Frame(Dir(Head(stack).name)),
                    [Head(stack) EXCEPT !.pc = "wait", !.err = r.err]>> \o Tail(stack),
        res   |-> Running]
  ELSE Return(Tail(stack), r.err, NoHandle)

\* unix.Mkdirat of the innermost call returned mk: any failure returns the
\* error of the first open.
Made(stack, mk) ==
  IF mk.err # "ok" THEN Return(Tail(stack), Head(stack).err, NoHandle)
  ELSE [stack |-> <<[Head(stack) EXCEPT !.pc = "reopen"]>> \o Tail(stack), res |-> Running]

\* The second open of the innermost call returned r.
Reopened(stack, r) ==
  Return(Tail(stack), r.err, IF r.err = "ok" THEN r.h ELSE NoHandle)

\* The directories the workers ensure.
ConcNames == { <<"a", "b">>, <<"a", "c">>, <<"a">> }

Workers == {1, 2}

InitConc ==
  /\ fs = BaseFS
  /\ skipOpenat2 = 0
  /\ haveOpenat2 \in BOOLEAN
  /\ last = NoCall
  /\ trace = <<>>
  /\ metadata = NoMetadata
  /\ \E n1, n2 \in ConcNames :
       workers = << [name |-> n1, stack |-> <<Frame(n1)>>, res |-> Running],
                    [name |-> n2, stack |-> <<Frame(n2)>>, res |-> Running] >>
  /\ BlobIdle /\ HoleIdle

\* Worker i made a system call that left the world r.w, and stands at next.
Stepped(i, r, next) ==
  /\ fs' = r.w.fs
  /\ skipOpenat2' = r.w.skip
  /\ trace' = r.w.trace
  /\ workers' = [workers EXCEPT ![i] = [@ EXCEPT !.stack = next.stack, !.res = next.res]]
  /\ UNCHANGED <<haveOpenat2, last, metadata, blobVars, holeVars>>

\* The first open of the innermost call of worker i.
WorkerOpen(i) ==
  /\ workers[i].stack # <<>> /\ Head(workers[i].stack).pc = "open"
  /\ Stepped(i, openFileUnderRootRaw(World, Fd(fs, RootLoc), Head(workers[i].stack).name,
                                     {"O_DIRECTORY"}, {}),
             FirstOpened(workers[i].stack,
                         openFileUnderRootRaw(World, Fd(fs, RootLoc),
                                              Head(workers[i].stack).name,
                                              {"O_DIRECTORY"}, {})))

\* The mkdirat of the innermost call of worker i.
WorkerMkdir(i) ==
  /\ workers[i].stack # <<>> /\ Head(workers[i].stack).pc = "mkdir"
  /\ Stepped(i, Res(Sys(World, "mkdirat", "",
                        KMkdirat(fs, Head(workers[i].stack).pDir,
                                 Base(Head(workers[i].stack).name), {})), "ok", NoHandle),
             Made(workers[i].stack,
                  KMkdirat(fs, Head(workers[i].stack).pDir,
                           Base(Head(workers[i].stack).name), {})))

\* The second open of the innermost call of worker i.
WorkerReopen(i) ==
  /\ workers[i].stack # <<>> /\ Head(workers[i].stack).pc = "reopen"
  /\ Stepped(i, openFileUnderRootRaw(World, Head(workers[i].stack).pDir,
                                     Base(Head(workers[i].stack).name), {"O_DIRECTORY"}, {}),
             Reopened(workers[i].stack,
                      openFileUnderRootRaw(World, Head(workers[i].stack).pDir,
                                           Base(Head(workers[i].stack).name),
                                           {"O_DIRECTORY"}, {})))

NextConc == \E i \in Workers : WorkerOpen(i) \/ WorkerMkdir(i) \/ WorkerReopen(i)

SpecConc == InitConc /\ [][NextConc]_vars

\* ------------------------------ the depth of openOrCreateDirUnderRoot

\* Nested calls of openOrCreateDirUnderRoot the stack has room for.
MaxDepth == 6

\* One call of openOrCreateDirUnderRoot(dirfd, name, 0), on a kernel with or
\* without openat2, with or without /proc mounted.
InitDepth ==
  /\ fs \in {BaseFS, [BaseFS EXCEPT !.proc = FALSE]}
  /\ skipOpenat2 = 0
  /\ haveOpenat2 \in BOOLEAN
  /\ last = NoCall
  /\ trace = <<>>
  /\ metadata = NoMetadata
  /\ \E n \in ConcNames \cup { <<"a", "">>, <<".">>, <<"etc", "x">>, <<"a", "b", "c">> } :
       workers = << [name |-> n, stack |-> <<Frame(n)>>, res |-> Running] >>
  /\ BlobIdle /\ HoleIdle

\* The call takes its next step while the stack has room for the call the
\* step may make.
NextDepth ==
  \/ Len(workers[1].stack) < MaxDepth /\ WorkerOpen(1)
  \/ WorkerMkdir(1)
  \/ WorkerReopen(1)

SpecDepth == InitDepth /\ [][NextDepth]_vars

\* ----------------------------------------- concurrent openFileUnderRootRaw

\* Concurrent calls of openFileUnderRootRaw.
MaxCallers == 2

\* Each caller is about to call openFileUnderRootRaw(dirfd, name, 0, 0) on
\* the checkout with the file f: for the dirfd itself, for f, for a missing
\* name.  The trace records the steps of all callers in the order they
\* take them.
InitRaw ==
  /\ fs = AttrFS
  /\ skipOpenat2 \in {0, 1}
  /\ haveOpenat2 \in BOOLEAN
  /\ last = NoCall
  /\ trace = <<>>
  /\ metadata = NoMetadata
  /\ workers \in [1..MaxCallers ->
                    [pc : {"start"}, name : { <<>>, <<"f">>, <<"m">> }, res : {Running}]]
  /\ BlobIdle /\ HoleIdle

\* Caller i took the step call with the outcome out and stands at pc, the
\* flag being skip afterwards.
RawStepped(i, call, out, pc, res, skip) ==
  /\ workers' = [workers EXCEPT ![i] = [@ EXCEPT !.pc = pc, !.res = res]]
  /\ trace' = Append(trace, Ev(call, i, out))
  /\ skipOpenat2' = skip
  /\ UNCHANGED <<fs, haveOpenat2, last, metadata, blobVars, holeVars>>

\* if name == "" { return unix.Dup(dirfd) }
RawDup(i) ==
  /\ workers[i].pc = "start" /\ workers[i].name = <<>>
  /\ RawStepped(i, "dup", "ok", "done", Res(World, "ok", Fd(fs, RootLoc)), skipOpenat2)

\* The flag is not consulted: openat2 is tried by every call.
RawLoadIgnored(i) ==
  /\ workers[i].pc = "start" /\ workers[i].name # <<>>
  /\ RawStepped(i, "load", skipOpenat2, "openat2", Running, skipOpenat2)

\* atomic.LoadInt32(&skipOpenat2) > 0 selects the fallback.
RawLoad(i) ==
  /\ workers[i].pc = "start" /\ workers[i].name # <<>>
  /\ RawStepped(i, "load", skipOpenat2, IF skipOpenat2 > 0 THEN "fallback" ELSE "openat2",
                Running, skipOpenat2)

\* openFileUnderRootOpenat2 returned r: ENOSYS leads to the store, any other
\* result is returned.
RawTried(i, r) ==
  RawStepped(i, "openat2", r.err, IF r.err = "ENOSYS" THEN "store" ELSE "done",
             IF r.err = "ENOSYS" THEN Running ELSE r, skipOpenat2)

RawOpenat2(i) ==
  /\ workers[i].pc = "openat2"
  /\ RawTried(i, openFileUnderRootOpenat2(World, Fd(fs, RootLoc), workers[i].name, {}, {}))

\* atomic.StoreInt32(&skipOpenat2, 1)
RawStore(i) ==
  /\ workers[i].pc = "store"
  /\ RawStepped(i, "store", 1, "fallback", Running, 1)

\* openFileUnderRootFallback returned r, which the call returns.
RawFellBack(i, r) == RawStepped(i, "fallback", r.err, "done", r, skipOpenat2)

RawFallback(i) ==
  /\ workers[i].pc = "fallback"
  /\ RawFellBack(i, openFileUnderRootFallback(World, Fd(fs, RootLoc), workers[i].name, {}, {}))

NextRaw ==
  \E i \in 1..MaxCallers :
    RawDup(i) \/ RawLoad(i) \/ RawOpenat2(i) \/ RawStore(i) \/ RawFallback(i)

SpecRaw == InitRaw /\ [][NextRaw]_vars

\* ------------------------------------------------------------ properties

IsSeqPrefix(p, q) == Len(p) <= Len(q) /\ SubSeq(q, 1, Len(p)) = p

Opened == last.op \in {"openFileUnderRoot", "openOrCreateDirUnderRoot"} /\ last.err = "ok"

\* C1: a handle returned by openFileUnderRoot or openOrCreateDirUnderRoot,
\* on the openat2 path and on the fallback path alike, has a real location
\* with the root's real path as a prefix, whatever symbolic links earlier
\* entries placed and whatever ".." segments the name holds.
C1_Containment == Opened => HasPrefix(Render(last.h.loc), Render(RootLoc))

\* C1 witness: on the fallback path, an open through a symbolic link placed
\* by an earlier entry returned a handle.
C1_Witness ==
  /\ Opened /\ skipOpenat2 = 1 /\ last.name = <<"a", "b">>
  /\ IsLink(fs, RootLoc \o <<"a">>)
  /\ \E i \in 1..Len(trace) : trace[i].call = "securejoin"

EnosysAt(t, i) == t[i].call = "openat2" /\ t[i].res = "ENOSYS"

\* C3: skipOpenat2 never goes back from 1 to 0, it changes only in a call
\* whose openat2 attempt failed with ENOSYS, and a call that reads it as set
\* (it was set when the call began, or the call itself set it) issues no
\* openat2 from then on.
C3_FlagMonotonic ==
  [][ /\ skipOpenat2 \in {0, 1} /\ skipOpenat2' \in {0, 1}
      /\ (skipOpenat2 = 1 => skipOpenat2' = 1)
      /\ (skipOpenat2' # skipOpenat2 => \E i \in 1..Len(trace') : EnosysAt(trace', i))
      /\ (skipOpenat2 = 1 => \A i \in 1..Len(trace') : trace'[i].call # "openat2")
      /\ \A i, j \in 1..Len(trace') :
           (i < j /\ EnosysAt(trace', i)) => trace'[j].call # "openat2" ]_vars

\* C3 witness: with the flag set, a call resolved through the fallback and
\* issued no openat2.
C3_Witness ==
  /\ skipOpenat2 = 1
  /\ \E i \in 1..Len(trace) : trace[i].call = "securejoin"
  /\ \A i \in 1..Len(trace) : trace[i].call # "openat2"

EscapingLink == LinkNode(0, FALSE, <<"..", "..", "etc", "passwd">>)

\* The case of C10: a/b is the link to ../../etc/passwd and the last call
\* was a symlink-following openFileUnderRoot of a/b.
C10_Case ==
  /\ last.op = "openFileUnderRoot" /\ last.name = <<"a", "b">>
  /\ "O_NOFOLLOW" \notin last.flags /\ ~({"O_CREAT", "O_EXCL"} \subseteq last.flags)
  /\ IsLink(fs, RootLoc \o <<"a", "b">>)
  /\ [fs.nodes[RootLoc \o <<"a", "b">>] EXCEPT !.ino = 0] = EscapingLink

\* C10 as stated: the open of a/b fails with an Escape error.
C10_FailsWithEscape == C10_Case => last.err = "Escape"

\* C10 as amended: the open never reaches the real /etc/passwd nor anything
\* outside the root, and it does not fail with Escape either: ".." is held
\* at the root, so the link names etc/passwd under the root; without O_CREAT
\* the open returns that file when it exists and NotFound when it does not.
C10_ConfinedNotEscape ==
  C10_Case =>
    /\ last.err # "Escape"
    /\ last.err = "ok" =>
         IsSeqPrefix(RootLoc, last.h.loc) /\ last.h.loc # <<"etc", "passwd">>
    /\ "O_CREAT" \notin last.flags =>
         /\ last.err = "ok" => last.h.loc = RootLoc \o <<"etc", "passwd">>
         /\ ~Exists(fs, RootLoc \o <<"etc", "passwd">>) => last.err = "ENOENT"

\* C10 witness: the open of a/b returned the root's own etc/passwd.
C10_Witness ==
  C10_Case /\ last.err = "ok" /\ last.h.loc = RootLoc \o <<"etc", "passwd">>

\* C2: GetBlobAt returns a nil error; the views received are, in request
\* order, one per chunk and bounded to (offset, length) of that chunk; the
\* data channel is closed only after all n views were received, the error
\* channel only after the data channel, and nothing is sent on the error
\* channel; a finished goroutine has delivered all n views, and while the
\* consumer keeps receiving the goroutine can always take its next step.
C2_OrderedBoundedViews ==
  /\ producer.pc # "none" => last.op = "GetBlobAt" /\ last.err = "nil"
  /\ Len(consumer.got) <= Len(chunks)
  /\ \A k \in 1..Len(consumer.got) :
       /\ consumer.got[k].off = chunks[k].Offset
       /\ consumer.got[k].limit - consumer.got[k].off = chunks[k].Length
  /\ streams.closed => Len(consumer.got) = Len(chunks)
  /\ errs.closed => streams.closed
  /\ errs.sent = 0
  /\ producer.pc = "done" => streams.closed /\ errs.closed
  /\ (consumer.state = "receiving" /\ producer.pc \notin {"none", "done"}) =>
       ENABLED (ProducerSend \/ ConsumerReceive \/ CloseStreams \/ CloseErrs)

\* C2 witness: two different chunks were requested, both views were
\* received and both channels are closed.
C2_Witness ==
  /\ Len(chunks) = 2 /\ chunks[1] # chunks[2] /\ chunks[1].Offset # chunks[1].Length
  /\ Len(consumer.got) = 2 /\ producer.pc = "done" /\ streams.closed /\ errs.closed

\* C9 as stated: a successful appendHole(fd, N) on a file of size S leaves
\* the size S + N, whatever the write position was.
C9_SizeIsOldSizePlusN == hole.err = "ok" => hfile.size = hole.S + hole.N

\* C9 as amended: a successful appendHole(fd, N) on a file at write
\* position P leaves the size P + N, which is S + N when the position was
\* at the end of the file; it writes no byte and the position is the new
\* end of the file.
C9_SizeIsPositionPlusN ==
  [][ hole'.err = "ok" =>
        /\ hfile'.size = hfile.pos + hole'.N
        /\ hfile.pos = hfile.size => hfile'.size = hfile.size + hole'.N
        /\ hfile'.written = hfile.written
        /\ hfile'.pos = hfile'.size
        /\ hole'.S = hfile.size /\ hole'.P = hfile.pos ]_vars

\* C9 witness: a hole was appended after data, at the end of the file.
C9_Witness ==
  /\ hole.err = "ok" /\ hole.N = 2 /\ hole.P = hole.S /\ hole.S > 0
  /\ hfile.written > 0 /\ hfile.size = hole.S + 2

AttrRank(e) ==
  CASE e.call \in {"fchown", "fchownat"} -> 1
    [] e.call = "fsetxattr"            -> 2
    [] e.call = "utimensat"            -> 3
    [] e.call \in {"fchmod", "fchmodat"} -> 4
    [] OTHER                           -> 0

\* The calls of the trace of the given rank.
AttrAt(rank) == {i \in 1..Len(trace) : AttrRank(trace[i]) = rank}

\* The last call was a setFileAttrs that got to apply attributes: the entry
\* is not marked, the file is valid, the type is known and, with usePath,
\* the parent was opened.
Applies ==
  /\ last.op = "setFileAttrs" /\ ~metadata.skipSetAttrs
  /\ last.args.file # NoHandle /\ metadata.Type \in {"reg", "dir", "symlink"}
  /\ last.what # "open parent"

\* The inode of the entry.
EntryInode == fs.inodes[fs.nodes[RootLoc \o metadata.Name].ino]

\* The mode the entry was created with.
CreatedMode == AttrFS.inodes[AttrFS.nodes[RootLoc \o metadata.Name].ino].mode

\* The attribute calls come in the order chown, setxattr, utimes, chmod:
\* one chown, before every other attribute call; at most one utimes and one
\* chmod; nothing after the chmod; a successful call ends with the chmod.
AttrOrdered ==
  /\ Cardinality(AttrAt(1)) = 1 /\ Cardinality(AttrAt(3)) <= 1 /\ Cardinality(AttrAt(4)) <= 1
  /\ \A i, j \in 1..Len(trace) :
       (i < j /\ AttrRank(trace[i]) > 0 /\ AttrRank(trace[j]) > 0)
         => AttrRank(trace[i]) <= AttrRank(trace[j])
  /\ last.err = "ok" => Cardinality(AttrAt(3)) = 1 /\ Cardinality(AttrAt(4)) = 1

\* C4: with metadata.skipSetAttrs set, setFileAttrs returns success, issues
\* no call at all (no open of the parent, no chown, setxattr, utimes or
\* chmod) and leaves the filesystem as it was, for every file handle (nil
\* too), entry type, options and usePath.
C4_SkipIsNoOp ==
  [][ (last'.op = "setFileAttrs" /\ last.op = "init" /\ metadata.skipSetAttrs) =>
        /\ last'.err = "ok" /\ trace' = <<>>
        /\ fs' = fs /\ skipOpenat2' = skipOpenat2 /\ metadata' = metadata ]_vars

\* C4 witness: a marked entry of unknown type was passed with a nil file and
\* usePath, and the call returned success.
C4_Witness ==
  /\ last.op = "setFileAttrs" /\ metadata.skipSetAttrs /\ last.err = "ok"
  /\ last.args.file = NoHandle /\ last.args.usePath /\ metadata.Type = "chunk"

\* C5 as stated: the attribute calls are issued in the order chown, xattrs,
\* utimes, chmod, and a successful call ends with the entry's mode being the
\* requested one.
C5_OrderedAndModeSet ==
  Applies => AttrOrdered /\ (last.err = "ok" => EntryInode.mode = last.args.mode)

\* C5 as amended: the attribute calls are issued in the order chown, xattrs,
\* utimes, chmod and a successful call ends with the chmod; the entry's mode
\* is the requested one when that chmod succeeded, while a chmod answered
\* ENOSYS or ENOTSUP (the answer for a symbolic link's own mode) is
\* tolerated and leaves the mode as the earlier steps left it.
C5_OrderedModeLast ==
  Applies =>
    /\ AttrOrdered
    /\ last.err = "ok" =>
         \A i \in AttrAt(4) :
           /\ canIgnore(trace[i].res)
           /\ trace[i].res = "ok" => EntryInode.mode = last.args.mode
           /\ trace[i].res # "ok" =>
                EntryInode.mode \in {CreatedMode, CreatedMode \ {"suid"}}

\* C5 witness: a set-id mode was requested for f; the chown succeeded (it
\* clears the set-id bit), an attribute was set, and the call ended with the
\* mode as requested.
C5_Witness ==
  /\ Applies /\ last.err = "ok" /\ metadata.Name = <<"f">>
  /\ last.args.mode = {"r", "suid"} /\ EntryInode.mode = {"r", "suid"}
  /\ EntryInode.uid = 5 /\ EntryInode.xattrs # {} /\ EntryInode.mtime = 7
  /\ \A i \in AttrAt(1) : trace[i].res = "ok"

\* The stored values base64 decodes.
ValidBase64 == {"", "dmFs"}

\* The attribute names of the entry whose value is malformed and that are
\* not reserved.
Malformed ==
  {k \in DOMAIN metadata.Xattrs \ xattrsToIgnore : metadata.Xattrs[k] \notin ValidBase64}

\* C6 as stated: when a value fails base64 decoding, setFileAttrs returns an
\* error and has issued no call before that failure.
C6_NoCallBeforeDecodeFailure ==
  (last.op = "setFileAttrs" /\ last.what = "decode xattr") =>
    last.err # "ok" /\ trace = <<>>

\* C6 as amended: when the entry has a malformed value outside the reserved
\* names, a setFileAttrs that applies attributes returns an error and issues
\* no setxattr for that attribute, no utimes and no chmod; the chown was
\* attempted before the decoding, and a setxattr that was issued before it
\* was one the kernel accepted or answered as not supported.
C6_DecodeFailureStopsLaterCalls ==
  (Applies /\ Malformed # {}) =>
    /\ last.err # "ok"
    /\ AttrAt(3) = {} /\ AttrAt(4) = {}
    /\ \A i \in AttrAt(2) : trace[i].arg \notin Malformed
    /\ last.what = "decode xattr" =>
         /\ Cardinality(AttrAt(1)) = 1
         /\ \A i \in AttrAt(2) : canIgnore(trace[i].res)

\* C6 witness: the decoding of user.b failed after the chown and after the
\* setxattr of user.a, which the iteration yielded first.
C6_Witness ==
  /\ Applies /\ last.what = "decode xattr" /\ last.err = "CorruptInputError"
  /\ \E i \in AttrAt(1), j \in AttrAt(2) :
       i < j /\ trace[i].res = "ok" /\ trace[j].arg = "user.a" /\ trace[j].res = "ok"
  /\ EntryInode.uid = 5
  /\ <<"user.a", "val">> \in EntryInode.xattrs

\* The calls of t made a hard link.
Linked(t) == \E i \in 1..Len(t) : t[i].call = "linkat" /\ t[i].res = "ok"

\* C8: copyFileContent with useHardLinks leaves skipSetAttrs set exactly
\* when the hard link was made or it was set before.  When the link was
\* made, the destination names the inode of the source, no inode was created
\* and none (the source's owner and attributes included) was changed,
\* nothing was copied, the handle is nil and the size is that of the stat
\* of the source.  When it was not made (the directory could not be opened
\* or the link failed) and the source could be statted, the call went on to
\* the exclusive create: a success returns the handle of a new file at the
\* destination that holds the copied content, a failure returns no handle.
C8_SkipIffLinked ==
  [][ (last'.op = "copyFileContent" /\ last'.args.useHardLinks) =>
        /\ metadata'.skipSetAttrs = (last'.args.skipSetAttrs \/ Linked(trace'))
        /\ Linked(trace') =>
             /\ last'.err = "ok" /\ last'.h = NoHandle
             /\ last'.args.size = fs.inodes[last'.args.srcFd.ino].size
             /\ fs'.nodes[RootLoc \o last'.name].ino = last'.args.srcFd.ino
             /\ fs'.inodes = fs.inodes
             /\ \A i \in 1..Len(trace') : trace'[i].call # "copy"
        /\ (~Linked(trace') /\ last'.err = "ok") =>
             /\ last'.h.loc = RootLoc \o last'.name
             /\ last'.h.ino \notin DOMAIN fs.inodes
             /\ fs'.nodes[last'.h.loc].ino = last'.h.ino
             /\ fs'.inodes[last'.h.ino].size = fs.inodes[last'.args.srcFd.ino].size
             /\ last'.args.size = fs.inodes[last'.args.srcFd.ino].size
             /\ \E i \in 1..Len(trace') : trace'[i].call = "copy" /\ trace'[i].res = "ok"
        /\ last'.err # "ok" => last'.h = NoHandle /\ last'.args.size = -1 ]_vars

\* C8 witness: the destination existed, it was unlinked and the second
\* link was made; the entry, unmarked before, is marked and names the inode
\* of the source.
C8_Witness ==
  /\ last.op = "copyFileContent" /\ last.args.useHardLinks /\ ~last.args.skipSetAttrs
  /\ metadata.skipSetAttrs /\ last.err = "ok" /\ last.h = NoHandle /\ last.args.size = 2
  /\ \E i, j, k \in 1..Len(trace) :
       /\ i < j /\ j < k
       /\ trace[i].call = "linkat" /\ trace[i].res = "EEXIST"
       /\ trace[j].call = "unlinkat" /\ trace[j].res = "ok"
       /\ trace[k].call = "linkat" /\ trace[k].res = "ok"
  /\ fs.nodes[RootLoc \o last.name].ino = 6 /\ fs.inodes[6].uid = 7

\* Both workers returned.
BothReturned == \A i \in Workers : workers[i].res.err # "running"

\* C7: two workers that concurrently ensure a/b and a/c under an empty
\* root both succeed in every interleaving: when both have returned, each
\* holds the handle of its directory ("already exists" from the mkdirat of
\* the shared ancestor a is a success).
C7_BothWorkersSucceed ==
  (BothReturned /\ workers[1].name = <<"a", "b">> /\ workers[2].name = <<"a", "c">>) =>
    \A i \in Workers :
      /\ workers[i].res.err = "ok"
      /\ workers[i].res.h.loc = RootLoc \o workers[i].name

\* The calls (call, arg) recorded in the trace t.
CallsIn(t, call, arg) == {i \in 1..Len(t) : t[i].call = call /\ t[i].arg = arg}

\* C11: openFileUnderRoot makes one first open; it calls
\* openOrCreateDirUnderRoot at most once, and only when that open failed
\* with ENOENT and O_CREAT was requested; it makes at most one second open,
\* after the parent was ensured; a failed second open ends the call with the
\* error of the first open and nothing but the deferred Close follows it;
\* a failed call without the cycle leaves the filesystem as it was.
C11_OneCreateRetryCycle ==
  [][ last'.op = "openFileUnderRoot" =>
        /\ Cardinality(CallsIn(trace', "openFileUnderRootRaw", "first")) = 1
        /\ Cardinality(CallsIn(trace', "openOrCreateDirUnderRoot", "parent")) <= 1
        /\ Cardinality(CallsIn(trace', "openFileUnderRootRaw", "retry")) <= 1
        /\ \A i \in CallsIn(trace', "openFileUnderRootRaw", "first") :
             /\ CallsIn(trace', "openOrCreateDirUnderRoot", "parent") # {}
                  <=> (trace'[i].res = "ENOENT" /\ "O_CREAT" \in last'.flags)
             /\ last'.err # "ok" => last'.err = trace'[i].res /\ last'.h = NoHandle
        /\ \A k \in CallsIn(trace', "openFileUnderRootRaw", "retry") :
             /\ \E j \in CallsIn(trace', "openOrCreateDirUnderRoot", "parent") :
                  j < k /\ trace'[j].res = "ok"
             /\ last'.err = "ok" <=> trace'[k].res = "ok"
             /\ \A m \in (k + 1)..Len(trace') : trace'[m].call = "close"
        /\ (last'.err # "ok" /\ CallsIn(trace', "openOrCreateDirUnderRoot", "parent") = {})
             => fs' = fs ]_vars

\* C11 witness: a creating open of a/b, a link to a missing file in a
\* missing directory, failed with ENOENT, the parent a was ensured, and the
\* second open failed as well: the call returned ENOENT.
C11_Witness ==
  /\ last.op = "openFileUnderRoot" /\ "O_CREAT" \in last.flags /\ last.err = "ENOENT"
  /\ \E j \in CallsIn(trace, "openOrCreateDirUnderRoot", "parent"),
        k \in CallsIn(trace, "openFileUnderRootRaw", "retry") :
       j < k /\ trace[j].res = "ok" /\ trace[k].res = "ENOENT"

\* The consumer gave up after fewer views than chunks.
AbandonedEarly == consumer.state = "abandoned" /\ Len(consumer.got) < Len(chunks)

\* C12: under fair scheduling, once the consumer has received all n views
\* the goroutine closes both channels and ends; once the consumer has given
\* up after k < n views, the goroutine never ends and no channel is ever
\* closed, and it comes to stay blocked on the send of view k + 1.
C12_EndsIffDrained ==
  /\ (producer.pc # "none" /\ Len(consumer.got) = Len(chunks))
        ~> (producer.pc = "done" /\ streams.closed /\ errs.closed)
  /\ [](AbandonedEarly => [](producer.pc # "done" /\ ~streams.closed /\ ~errs.closed))
  /\ AbandonedEarly ~> [](producer.pc = "send" /\ producer.i = Len(consumer.got) + 1)

\* C12 witness: of two chunks one view was received, the consumer gave up
\* and the goroutine is blocked on the send of the second view.
C12_Witness ==
  /\ Len(chunks) = 2 /\ Len(consumer.got) = 1 /\ consumer.state = "abandoned"
  /\ producer.pc = "send" /\ producer.i = 2 /\ ~streams.closed /\ ~errs.closed

\* The result of the system call `call` of the last call ("none" when it
\* was not issued).
ResOf(call) ==
  IF \E i \in 1..Len(trace) : trace[i].call = call
  THEN trace[CHOOSE i \in 1..Len(trace) : trace[i].call = call].res
  ELSE "none"

\* The inode the name of the last call leads to under the root, a final
\* symbolic link followed or not.
NamedInode(follow) ==
  fs.nodes[Walk(fs, RootLoc, RootLoc, last.name, follow, MaxFollow).loc].ino

\* whiteoutHandler.Chown acted on the inode ino: a successful ownership call
\* left it with the requested owner, and a failed one is forgiven exactly
\* when fstat succeeded and it already had the requested uid and gid;
\* otherwise the failure is returned, with the hint for EINVAL only.
ChownOutcome(ino) ==
  /\ ResOf("fchownat") = "ok" =>
       /\ last.err = "ok"
       /\ fs.inodes[ino].uid = last.args.uid /\ fs.inodes[ino].gid = last.args.gid
  /\ ResOf("fchownat") \notin {"ok", "none"} =>
       /\ last.err = "ok" <=>
            /\ ResOf("fstat") = "ok"
            /\ fs.inodes[ino].uid = last.args.uid /\ fs.inodes[ino].gid = last.args.gid
       /\ last.err # "ok" =>
            /\ last.err = ResOf("fchownat")
            /\ (last.what = "potentially insufficient UIDs or GIDs") <=> (last.err = "EINVAL")

\* C13 as stated: whiteoutHandler.Chown does not follow a final symbolic
\* link, so the ownership call and the forgiving comparison are about the
\* named entry itself.
C13_ChownOfNamedEntryNoFollow ==
  (last.op = "Chown" /\ ResOf("fchownat") # "none") => ChownOutcome(NamedInode(FALSE))

\* C13: whiteoutHandler.Chown opens the path with O_PATH alone, a final
\* symbolic link being followed inside the root, and changes the ownership
\* of the file the handle is open on; when the ownership call fails it
\* returns success exactly when fstat succeeded and that file's uid and gid
\* both equal the requested ones, and otherwise the error of the ownership
\* call, with the identity-mapping hint exactly for EINVAL.
C13_ChownOfOpenedFile ==
  (last.op = "Chown" /\ ResOf("fchownat") # "none") => ChownOutcome(NamedInode(TRUE))

\* C13 witness: Chown of the link s succeeded and gave the file f it points
\* to the requested owner 5:5, the link keeping its own.
C13_Witness ==
  /\ last.op = "Chown" /\ last.name = <<"s">> /\ last.err = "ok"
  /\ ResOf("fchownat") = "ok" /\ last.args.uid = 5 /\ last.args.gid = 5
  /\ fs.inodes[6].uid = 5 /\ fs.inodes[6].gid = 5
  /\ fs.inodes[7].uid = 0 /\ fs.inodes[7].gid = 0

\* The handles the first n calls of the trace opened, less those they
\* closed.
OpenAfter(n) ==
  Cardinality({i \in 1..n : trace[i].call \in {"openat2", "openat", "open", "dup"}
                            /\ trace[i].res = "ok"})
  - Cardinality({i \in 1..n : trace[i].call = "close"})

\* C14: when an operation of the layer returns, every handle it opened is
\* closed but the one it returns: no handle is left open by a call that
\* returns none (every failed call among them), exactly one by a call that
\* returns a handle, and no handle is closed that was not opened.
C14_HandlesBalanced ==
  /\ last.err # "ok" => last.h = NoHandle
  /\ OpenAfter(Len(trace)) = IF last.h = NoHandle THEN 0 ELSE 1
  /\ \A n \in 0..Len(trace) : OpenAfter(n) >= 0

\* C14 witness: safeLink into the directory d failed at the link with the
\* source and the directory open, and closed both.
C14_Witness ==
  /\ last.op = "safeLink" /\ last.what = "create hardlink" /\ last.name = <<"d", "l">>
  /\ \E n \in 1..Len(trace) : OpenAfter(n) = 2
  /\ OpenAfter(Len(trace)) = 0

\* The steps of kind call that caller i took, as positions of the trace.
StepsOf(i, call) == {k \in 1..Len(trace) : trace[k].call = call /\ trace[k].arg = i}

\* Every call of openFileUnderRootRaw has returned.
AllReturned == \A i \in 1..MaxCallers : workers[i].pc = "done"

\* On a kernel without openat2: a returned call with a name has the result
\* of the fallback resolution and never ENOSYS; no call tries openat2
\* twice; a call that tries openat2 after a store read the flag before the
\* first store.
RawCallsFallBack ==
  ~haveOpenat2 =>
    /\ \A i \in 1..MaxCallers :
         /\ (workers[i].pc = "done" /\ workers[i].name # <<>>) =>
              /\ workers[i].res.err # "ENOSYS"
              /\ StepsOf(i, "fallback") # {}
              /\ workers[i].res.err =
                   openFileUnderRootFallback(World, Fd(fs, RootLoc), workers[i].name, {}, {}).err
              /\ workers[i].res.h =
                   openFileUnderRootFallback(World, Fd(fs, RootLoc), workers[i].name, {}, {}).h
         /\ Cardinality(StepsOf(i, "openat2")) <= 1
         /\ \A k \in StepsOf(i, "openat2") :
              \A j \in 1..(k - 1) :
                trace[j].call = "store" => \E l \in StepsOf(i, "load") : l < j

\* C15 as stated: on a kernel without openat2 the calls fall back as above,
\* and once all calls have returned the flag is set.
C15_FlagSetWhenAllReturned ==
  /\ RawCallsFallBack
  /\ (~haveOpenat2 /\ AllReturned) => skipOpenat2 = 1

\* C15: on a kernel without openat2, in every interleaving, every call with
\* a non-empty name returns the result of the fallback and never ENOSYS,
\* each call tries openat2 at most once, a call tries openat2 after a store
\* of the flag only if it read the flag before that store, and once all
\* calls have returned the flag is set provided one of them had a
\* non-empty name (a call with the empty name duplicates the dirfd and
\* does not touch the flag).
C15_FlagSetWhenANamedCallReturned ==
  /\ RawCallsFallBack
  /\ (~haveOpenat2 /\ AllReturned /\ \E i \in 1..MaxCallers : workers[i].name # <<>>)
       => skipOpenat2 = 1

\* C15 witness: without openat2, both callers read the clear flag, the
\* first stored it, the second still tried openat2 afterwards, and both
\* returned the result of the fallback.
C15_Witness ==
  /\ ~haveOpenat2 /\ AllReturned /\ skipOpenat2 = 1
  /\ \A i \in 1..2 : workers[i].name = <<"f">> /\ workers[i].res.err = "ok"
  /\ \E j \in StepsOf(1, "store"), k \in StepsOf(2, "openat2") : j < k

\* The positions of the system call `call` in the trace, in order.
Positions(call) == {k \in 1..Len(trace) : trace[k].call = call}

\* C16: doHardLink makes at most two link attempts and at most one unlink.
\* When the first link does not fail with EEXIST there is no unlink and no
\* second attempt, and a failure leaves no destination; when it fails with
\* EEXIST, one unlink and then exactly one more link follow.  The result of
\* the last attempt is what doHardLink returns, and when that is success
\* the destination name is a name of the source's inode.
C16_LinkUnlinkRelink ==
  (last.op = "safeLink" /\ Positions("linkat") # {}) =>
    LET links   == Positions("linkat")
        unlinks == Positions("unlinkat")
        first   == CHOOSE k \in links : \A j \in links : k <= j
        final   == CHOOSE k \in links : \A j \in links : j <= k
        dest    == trace[first].arg
    IN  /\ Cardinality(links) <= 2 /\ Cardinality(unlinks) <= 1
        /\ \A k \in links \cup unlinks : trace[k].arg = dest
        /\ trace[first].res # "EEXIST" =>
             /\ links = {first} /\ unlinks = {}
             /\ trace[first].res # "ok" => ~Exists(fs, dest)
        /\ trace[first].res = "EEXIST" =>
             /\ Cardinality(links) = 2 /\ Cardinality(unlinks) = 1
             /\ \A u \in unlinks : first < u /\ u < final
        /\ ResOf("doHardLink") = trace[final].res
        /\ trace[final].res = "ok" =>
             /\ Exists(fs, dest)
             /\ fs.nodes[dest].ino = fs.nodes[RootLoc \o last.args.Linkname].ino

\* C16 witness: d/l existed, the first link failed with EEXIST, d/l was
\* unlinked, the second link succeeded and d/l names the inode of f.
C16_Witness ==
  /\ last.op = "safeLink" /\ last.name = <<"d", "l">> /\ last.args.Linkname = <<"f">>
  /\ Cardinality(Positions("linkat")) = 2 /\ Cardinality(Positions("unlinkat")) = 1
  /\ ResOf("linkat") = "EEXIST" /\ ResOf("unlinkat") = "ok" /\ ResOf("doHardLink") = "ok"
  /\ fs.nodes[RootLoc \o <<"d", "l">>].ino = 6

\* The ownership call of the last setFileAttrs failed.
ChownRefused == \E i \in AttrAt(1) : trace[i].res # "ok"

\* What the last setFileAttrs would have done had the kernel answered its
\* chown, xattr, utimes and chmod calls as a does (the other answers as
\* given), with options.IgnoreChownErrors set as ign.
Replayed(a, ign) ==
  setFileAttrs([fs |-> AttrFS, skip |-> 0, trace |-> <<>>], Fd(AttrFS, RootLoc),
               last.args.file, last.args.mode, metadata, [IgnoreChownErrors |-> ign],
               last.args.usePath, a)

\* C17: a failure of the ownership step makes setFileAttrs fail exactly
\* when options.IgnoreChownErrors is false.  With it false the call returns
\* the chown error and issues no setxattr, utimes or chmod after it.  With
\* it true the failure is ignored: the call goes on with the xattr, utimes
\* and mode steps in order, issuing the calls and returning the result it
\* would after a successful chown, so that a call none of whose later steps
\* fails ends in success with the utimes and the chmod issued.
C17_ChownFatalIffNotIgnored ==
  Applies =>
    /\ last.what = "chown" <=> (ChownRefused /\ ~last.args.IgnoreChownErrors)
    /\ last.what = "chown" =>
         /\ last.err # "ok"
         /\ AttrAt(2) \cup AttrAt(3) \cup AttrAt(4) = {}
         /\ \A i \in AttrAt(1), j \in 1..Len(trace) : j > i => trace[j].call = "close"
    /\ (ChownRefused /\ last.args.IgnoreChownErrors) =>
         LET same == Replayed([last.args.env EXCEPT !.chown = "ok"], TRUE) IN
         /\ AttrOrdered
         /\ last.err = same.err /\ last.what = same.what
         /\ Len(trace) = Len(same.w.trace)
         /\ \A k \in 1..Len(trace) : k \notin AttrAt(1) => trace[k] = same.w.trace[k]
         /\ last.err = "ok" => Cardinality(AttrAt(3)) = 1 /\ Cardinality(AttrAt(4)) = 1

\* C17 witness: with IgnoreChownErrors the chown of f was refused, and the
\* call went on to set the attribute, the time and the mode and returned
\* success, the owner being left as it was.
C17_Witness ==
  /\ Applies /\ last.args.IgnoreChownErrors /\ ChownRefused /\ last.err = "ok"
  /\ metadata.Name = <<"f">> /\ EntryInode.uid = 0
  /\ EntryInode.xattrs # {} /\ EntryInode.mtime = 7 /\ EntryInode.mode = last.args.mode
  /\ \A r \in 2..4 : AttrAt(r) # {}

\* The operation an error of setFileAttrs names for an attribute call of
\* rank r.
StepName(r) ==
  CASE r = 1 -> "chown" [] r = 2 -> "set xattr" [] r = 3 -> "set utimes" [] r = 4 -> "chmod"

\* The attribute calls of the last setFileAttrs that failed.
FailedCalls == {i \in 1..Len(trace) : AttrRank(trace[i]) > 0 /\ trace[i].res # "ok"}

\* The failed call i did not end setFileAttrs: the call went on or returned
\* success.
Tolerated(i) ==
  \/ last.err = "ok"
  \/ last.what = "decode xattr"
  \/ \E j \in (i + 1)..Len(trace) : AttrRank(trace[j]) > 0

\* The failed call i ended setFileAttrs with its error, named after its
\* operation.
Fatal(i) ==
  /\ last.err = trace[i].res /\ last.what = StepName(AttrRank(trace[i]))
  /\ \A j \in (i + 1)..Len(trace) : AttrRank(trace[j]) = 0

\* C18 as stated: the only failures setFileAttrs tolerates are a chown
\* failure with IgnoreChownErrors and a "not supported" failure of a
\* setxattr; every failure of the utimes or of the chmod is fatal.
C18_OnlyChownAndXattrSoft ==
  Applies =>
    \A i \in FailedCalls :
      /\ AttrRank(trace[i]) = 1 => (Tolerated(i) <=> last.args.IgnoreChownErrors)
      /\ AttrRank(trace[i]) = 2 => (Tolerated(i) <=> trace[i].res \in {"ENOSYS", "ENOTSUP"})
      /\ AttrRank(trace[i]) \in {3, 4} => Fatal(i)

\* C18: the failures setFileAttrs tolerates are a chown failure with
\* IgnoreChownErrors and an ENOSYS or ENOTSUP failure of a setxattr, of the
\* utimes or of the chmod; every other failure of one of these steps ends
\* the call with that error, named after the operation.
C18_UnsupportedIsSoftEverywhere ==
  Applies =>
    \A i \in FailedCalls :
      /\ Tolerated(i) <=> ~Fatal(i)
      /\ AttrRank(trace[i]) = 1 => (Tolerated(i) <=> last.args.IgnoreChownErrors)
      /\ AttrRank(trace[i]) > 1 => (Tolerated(i) <=> trace[i].res \in {"ENOSYS", "ENOTSUP"})

\* C18 witness: the utimes of f was answered ENOSYS and its chmod ENOTSUP,
\* and setFileAttrs returned success.
C18_Witness ==
  /\ Applies /\ last.err = "ok" /\ metadata.Name = <<"f">> /\ ~last.args.usePath
  /\ \E i \in AttrAt(3) : trace[i].res = "ENOSYS"
  /\ \E i \in AttrAt(4) : trace[i].res = "ENOTSUP"

\* The attribute calls of the last call.
AttrCalls == {k \in 1..Len(trace) : AttrRank(trace[k]) > 0}

\* The entry was made and opened before position k of the trace: for
\* safeMkdir a mkdirat that succeeded or found the entry, for safeLink a
\* doHardLink that succeeded, and after it a successful open.
MadeAndOpenedBefore(k) ==
  \E m, o \in 1..(k - 1) :
    /\ m < o
    /\ trace[o].call = "openFileUnderRootRaw" /\ trace[o].res = "ok"
    /\ IF last.op = "safeMkdir"
       THEN trace[m].call = "mkdirat" /\ trace[m].res \in {"ok", "EEXIST"}
            /\ \A j \in (m + 1)..Len(trace) : trace[j].call # "mkdirat"
       ELSE trace[m].call = "doHardLink" /\ trace[m].res = "ok"

\* The no-follow reopen of safeLink failed with ELOOP.
ReopenLooped ==
  \E m, o \in 1..Len(trace) :
    /\ m < o /\ trace[m].call = "doHardLink"
    /\ trace[o].call = "openFileUnderRootRaw" /\ trace[o].res = "ELOOP"

\* C19: in safeMkdir and safeLink the attributes are applied last: every
\* attribute call comes after the entry was made (or found) and opened, no
\* mkdir, link, unlink, symlink or mknod follows one, a call that does not
\* reach setFileAttrs returns an error and has applied no attribute, and in
\* safeLink the attributes go through the path-based no-follow calls
\* exactly when the no-follow reopen failed with ELOOP and the destination
\* was reopened as a path handle.
C19_AttributesLast ==
  last.op \in {"safeMkdir", "safeLink"} =>
    /\ \A k \in AttrCalls :
         /\ MadeAndOpenedBefore(k)
         /\ \A j \in (k + 1)..Len(trace) :
              trace[j].call \notin {"mkdirat", "linkat", "unlinkat", "symlinkat", "mknodat"}
    /\ Positions("setFileAttrs") = {} => last.err # "ok" /\ AttrCalls = {}
    /\ \A k \in Positions("setFileAttrs") :
         /\ MadeAndOpenedBefore(k)
         /\ last.err = trace[k].res
         /\ \A j \in (k + 1)..Len(trace) : trace[j].call = "close"
         /\ trace[k].arg = IF ReopenLooped THEN "usePath" ELSE ""
    /\ ReopenLooped =>
         \A k \in AttrCalls : trace[k].call \in {"fchownat", "utimensat", "fchmodat"}
    /\ (last.op = "safeLink" /\ ~ReopenLooped) =>
         \A k \in AttrCalls : trace[k].call \in {"fchown", "utimensat", "fchmod"}

\* C19 witness: safeLink made l a link to the symbolic link s, the reopen
\* for writing failed with ELOOP, and the owner was set on the link itself
\* by path, the file f it points to keeping its owner.
C19_Witness ==
  /\ last.op = "safeLink" /\ last.name = <<"l">> /\ last.args.Linkname = <<"s">>
  /\ last.err = "ok" /\ ReopenLooped /\ ResOf("fchownat") = "ok"
  /\ fs.nodes[RootLoc \o <<"l">>].ino = 7
  /\ fs.inodes[7].uid = 5 /\ fs.inodes[6].uid = 0

\* C20 as stated: a call of openOrCreateDirUnderRoot(name) has at most
\* (number of path components of name) + 1 calls of the function nested at
\* any time, whatever the opens return, an ENOENT of the open of "."
\* included.
C20_DepthBoundedByComponents ==
  \A i \in DOMAIN workers :
    ("stack" \in DOMAIN workers[i]) => Len(workers[i].stack) <= Len(workers[i].name) + 1

\* Where every open succeeds or fails in an existing directory, the calls
\* nested are at most the components of the name and one.
C20_DepthBoundedWithProc ==
  (fs.proc \/ haveOpenat2) => C20_DepthBoundedByComponents

====
